---- MODULE Spec2Model ----
(***************************************************************************)
(* A model of the Monopoly server's authoritative game engine              *)
(* (server/game_engine) together with the part of the session layer        *)
(* (server/network/game_manager.py, message_handler.py) that routes        *)
(* client messages to one managed game.                                    *)
(*                                                                         *)
(* Every engine method is a pure operator Game -> Game over a record that  *)
(* bundles the fields of the Game object; every action of the next-state   *)
(* relation is one message handler, applied to the game as a whole.        *)
(*                                                                         *)
(* The network layer follows: ConnectionManager                            *)
(* (connection_manager.py) and the coroutines of MonopolyServer            *)
(* (server.py), one step per stretch between two socket sends, and the     *)
(* GameManager with every game it holds and the snapshots it saves.        *)
(***************************************************************************)
EXTENDS Integers, Sequences, FiniteSets, TLC

(***************************************************************************)
(* Bounds of the model.                                                    *)
(***************************************************************************)
\* Clients that may connect; their player ids are 1..NumClients.
NumClients == 2
\* Each die shows 1..MaxDie.
MaxDie == 2
\* At most MaxRolls dice rolls, MaxBankruptcies bankruptcies and
\* MaxAssetEvents building / mortgage operations are logged per game object.
MaxRolls == 4
MaxBankruptcies == 1
MaxAssetEvents == 2
\* At most MaxRepeats bankruptcies where a bankruptcy is declared again.
MaxRepeats == 2
\* The board positions clients name in building and mortgage requests.
RequestPositions == {1, 3, 5, 37}
PaymentRequestPositions == {3, 5}
\* The turn at which the restored game of InitMid was saved.
MidTurn == 20
\* The websockets the server accepts over time, and the requests it
\* receives on each.
NumSockets == 3
MaxRequests == 1

(***************************************************************************)
(* Program constants (shared/constants.py, server/game_engine/game.py).    *)
(***************************************************************************)
BOARD_SIZE == 40
STARTING_MONEY == 1500
SALARY_AMOUNT == 200
JAIL_POSITION == 10
MAX_JAIL_TURNS == 3
JAIL_BAIL == 50
MAX_HOUSES_PER_PROPERTY == 4
TOTAL_HOUSES == 32
TOTAL_HOTELS == 12
min_players == 2
max_players == 4

\* Python's None (owner_id, winner_id, creditor_id, last_dice_roll).
None == 0
\* Python's None in a field that holds a str id of the server (game_id,
\* request_id).
NoId == ""
\* A creditor_id a client may send that names no player of the game.
UnknownId == NumClients + 1

PlayerIds == 1..NumClients

Sockets == 1..NumSockets

(***************************************************************************)
(* The board: shared/constants.py PROPERTIES / BOARD_SPACES.               *)
(***************************************************************************)
Positions == 0..(BOARD_SIZE - 1)

Sp(type, cost, group, rents, house_cost) ==
    [type |-> type, cost |-> cost, group |-> group, rents |-> rents,
     house_cost |-> house_cost]

BOARD_SPACES ==
    [pos \in Positions |->
       CASE pos = 0  -> Sp("GO", 0, "", <<>>, 0)
         [] pos = 10 -> Sp("JAIL", 0, "", <<>>, 0)
         [] pos = 20 -> Sp("FREE_PARKING", 0, "", <<>>, 0)
         [] pos = 30 -> Sp("GO_TO_JAIL", 0, "", <<>>, 0)
         [] pos = 1  -> Sp("PROPERTY", 60, "BROWN", <<2, 10, 30, 90, 160, 250>>, 50)
         [] pos = 3  -> Sp("PROPERTY", 60, "BROWN", <<4, 20, 60, 180, 320, 450>>, 50)
         [] pos = 6  -> Sp("PROPERTY", 100, "LIGHT_BLUE", <<6, 30, 90, 270, 400, 550>>, 50)
         [] pos = 8  -> Sp("PROPERTY", 100, "LIGHT_BLUE", <<6, 30, 90, 270, 400, 550>>, 50)
         [] pos = 9  -> Sp("PROPERTY", 120, "LIGHT_BLUE", <<8, 40, 100, 300, 450, 600>>, 50)
         [] pos = 11 -> Sp("PROPERTY", 140, "PINK", <<10, 50, 150, 450, 625, 750>>, 100)
         [] pos = 13 -> Sp("PROPERTY", 140, "PINK", <<10, 50, 150, 450, 625, 750>>, 100)
         [] pos = 14 -> Sp("PROPERTY", 160, "PINK", <<12, 60, 180, 500, 700, 900>>, 100)
         [] pos = 16 -> Sp("PROPERTY", 180, "ORANGE", <<14, 70, 200, 550, 750, 950>>, 100)
         [] pos = 18 -> Sp("PROPERTY", 180, "ORANGE", <<14, 70, 200, 550, 750, 950>>, 100)
         [] pos = 19 -> Sp("PROPERTY", 200, "ORANGE", <<16, 80, 220, 600, 800, 1000>>, 100)
         [] pos = 21 -> Sp("PROPERTY", 220, "RED", <<18, 90, 250, 700, 875, 1050>>, 150)
         [] pos = 23 -> Sp("PROPERTY", 220, "RED", <<18, 90, 250, 700, 875, 1050>>, 150)
         [] pos = 24 -> Sp("PROPERTY", 240, "RED", <<20, 100, 300, 750, 925, 1100>>, 150)
         [] pos = 26 -> Sp("PROPERTY", 260, "YELLOW", <<22, 110, 330, 800, 975, 1150>>, 150)
         [] pos = 27 -> Sp("PROPERTY", 260, "YELLOW", <<22, 110, 330, 800, 975, 1150>>, 150)
         [] pos = 29 -> Sp("PROPERTY", 280, "YELLOW", <<24, 120, 360, 850, 1025, 1200>>, 150)
         [] pos = 31 -> Sp("PROPERTY", 300, "GREEN", <<26, 130, 390, 900, 1100, 1275>>, 200)
         [] pos = 32 -> Sp("PROPERTY", 300, "GREEN", <<26, 130, 390, 900, 1100, 1275>>, 200)
         [] pos = 34 -> Sp("PROPERTY", 320, "GREEN", <<28, 150, 450, 1000, 1200, 1400>>, 200)
         [] pos = 37 -> Sp("PROPERTY", 350, "DARK_BLUE", <<35, 175, 500, 1100, 1300, 1500>>, 200)
         [] pos = 39 -> Sp("PROPERTY", 400, "DARK_BLUE", <<50, 200, 600, 1400, 1700, 2000>>, 200)
         [] pos \in {5, 15, 25, 35} ->
                        Sp("RAILROAD", 200, "RAILROAD", <<25, 50, 100, 200>>, 0)
         [] pos \in {12, 28} -> Sp("UTILITY", 150, "UTILITY", <<>>, 0)
         [] pos = 4  -> Sp("TAX", 200, "", <<>>, 0)
         [] pos = 38 -> Sp("TAX", 100, "", <<>>, 0)
         [] pos \in {2, 17, 33} -> Sp("COMMUNITY_CHEST", 0, "", <<>>, 0)
         [] pos \in {7, 22, 36} -> Sp("CHANCE", 0, "", <<>>, 0)]

\* Board._initialize_properties: one Property per purchasable space.
PropertyPositions ==
    {pos \in Positions :
        BOARD_SPACES[pos].type \in {"PROPERTY", "RAILROAD", "UTILITY"}}

\* UTILITY_MULTIPLIERS.get(same_group_owned, 4)
UtilityMultiplier(n) == IF n = 2 THEN 10 ELSE 4

(***************************************************************************)
(* The card tables: server/game_engine/cards.py.                           *)
(***************************************************************************)
Cd(action, value, per_house, per_hotel, keep) ==
    [action |-> action, value |-> value, per_house |-> per_house,
     per_hotel |-> per_hotel, keep |-> keep]

CHANCE_CARDS ==
    << Cd("MOVE_TO", 0, 0, 0, FALSE),
       Cd("MOVE_TO", 24, 0, 0, FALSE),
       Cd("MOVE_TO", 11, 0, 0, FALSE),
       Cd("MOVE_TO", -1, 0, 0, FALSE),
       Cd("MOVE_TO", -2, 0, 0, FALSE),
       Cd("COLLECT_MONEY", 50, 0, 0, FALSE),
       Cd("GET_OUT_OF_JAIL", 0, 0, 0, TRUE),
       Cd("MOVE_BACK", 3, 0, 0, FALSE),
       Cd("GO_TO_JAIL", 0, 0, 0, FALSE),
       Cd("REPAIRS", 0, 25, 100, FALSE),
       Cd("PAY_MONEY", 15, 0, 0, FALSE),
       Cd("MOVE_TO", 5, 0, 0, FALSE),
       Cd("PAY_TO_PLAYERS", 50, 0, 0, FALSE),
       Cd("COLLECT_MONEY", 150, 0, 0, FALSE),
       Cd("MOVE_TO", 39, 0, 0, FALSE),
       Cd("MOVE_TO", -2, 0, 0, FALSE) >>

COMMUNITY_CHEST_CARDS ==
    << Cd("MOVE_TO", 0, 0, 0, FALSE),
       Cd("COLLECT_MONEY", 200, 0, 0, FALSE),
       Cd("PAY_MONEY", 50, 0, 0, FALSE),
       Cd("COLLECT_MONEY", 50, 0, 0, FALSE),
       Cd("GET_OUT_OF_JAIL", 0, 0, 0, TRUE),
       Cd("GO_TO_JAIL", 0, 0, 0, FALSE),
       Cd("COLLECT_MONEY", 100, 0, 0, FALSE),
       Cd("COLLECT_MONEY", 20, 0, 0, FALSE),
       Cd("COLLECT_FROM_PLAYERS", 10, 0, 0, FALSE),
       Cd("COLLECT_MONEY", 100, 0, 0, FALSE),
       Cd("PAY_MONEY", 100, 0, 0, FALSE),
       Cd("PAY_MONEY", 50, 0, 0, FALSE),
       Cd("COLLECT_MONEY", 25, 0, 0, FALSE),
       Cd("REPAIRS", 0, 40, 115, FALSE),
       Cd("COLLECT_MONEY", 10, 0, 0, FALSE),
       Cd("COLLECT_MONEY", 100, 0, 0, FALSE) >>

CardIdx == 1..16

(***************************************************************************)
(* State.                                                                  *)
(***************************************************************************)
VARIABLES
    \* ---- Game (server/game_engine/game.py) ----
    players,                 \* Game.players: player id -> Player
    player_order,            \* Game.player_order
    current_player_index,    \* Game.current_player_index (0-based)
    phase,                   \* Game.phase
    turn_number,             \* Game.turn_number
    last_dice_roll,          \* Game.last_dice_roll: <<die1, die2>> or <<>>
    winner_id,               \* Game.winner_id
    properties,              \* Game.board.properties: position -> Property
    houses_available,        \* Game.rules.houses_available
    hotels_available,        \* Game.rules.hotels_available
    chance,                  \* Game.cards.chance.cards (indices into CHANCE_CARDS)
    chance_discard,          \* Game.cards.chance.discard
    community_chest,         \* Game.cards.community_chest.cards
    community_chest_discard, \* Game.cards.community_chest.discard
    owed,                    \* the amount of the payment that blocked the turn
    events,                  \* Game.events: event type -> number of entries
    last_three_doubles,      \* Game.events: <<player, turn>> of the last
                             \* "sent_to_jail" entry with reason "three_doubles"
    free_rolls,              \* Game.events: player -> number of "dice_rolled"
                             \* entries the player logged while not in jail
                             \* since the last successful end_turn
    last_roll_by,            \* Game.events: <<player, rolled in jail>> of the
                             \* last "dice_rolled" entry since the last
                             \* successful end_turn, << None, FALSE >> if none
    \* ---- GameManager (server/network/game_manager.py) ----
    game_exists,             \* the game is in GameManager._games
    host_player_id,          \* ManagedGame.host_player_id
    player_games,            \* the ids GameManager._player_games maps to the game
    last_saved_turn,         \* ManagedGame.last_saved_turn
    \* ---- ConnectionManager (server/network/connection_manager.py) ----
    connections,             \* _connections: websocket -> PlayerConnection
    player_to_socket,        \* _player_to_socket: player id -> websocket
    game_players,            \* _game_players[Game.id]
    disconnected_players,    \* _disconnected_players: player id -> PlayerConnection
    \* ---- MonopolyServer (server/network/server.py) ----
    tasks,                   \* websocket -> where its _handle_client coroutine
                             \* stands, with the locals it holds there
    \* ---- GameManager with every game it holds ----
    manager                  \* _games, _player_games and the snapshots its
                             \* repository keeps

gameVars ==
    << players, player_order, current_player_index, phase, turn_number,
       last_dice_roll, winner_id, properties, houses_available,
       hotels_available, chance, chance_discard, community_chest,
       community_chest_discard, owed, events, last_three_doubles,
       free_rolls, last_roll_by >>

sessionVars == << game_exists, host_player_id, player_games, last_saved_turn >>

netVars ==
    << connections, player_to_socket, game_players, disconnected_players,
       tasks >>

vars == << gameVars, sessionVars, netVars, manager >>

\* No PlayerConnection under this key.
NoConnection ==
    [player_id |-> None, game_id |-> NoId, is_host |-> FALSE,
     is_spectator |-> FALSE]

\* No request in hand (HandleResult with nothing to send).
NoResult ==
    [response |-> None, request_id |-> NoId, broadcasts |-> << >>,
     broadcast_state |-> FALSE, should_save |-> FALSE]

\* No _handle_client coroutine runs for the websocket.
ClosedTask ==
    [pc |-> "closed", player_id |-> None, closing |-> FALSE,
     result |-> NoResult, game_id |-> NoId, index |-> 0,
     recipients |-> << >>, message |-> None, sent |-> << >>,
     after |-> None, requests |-> 0]

\* A ConnectionManager with no socket: its join_game, leave_game and
\* transfer_host find no record of a player and change nothing.
NoNetwork ==
    /\ connections = [ws \in Sockets |-> NoConnection]
    /\ player_to_socket = [p \in PlayerIds |-> None]
    /\ game_players = {}
    /\ disconnected_players = [p \in PlayerIds |-> NoConnection]
    /\ tasks = [ws \in Sockets |-> ClosedTask]

\* A GameManager that holds no game over an empty repository; the
\* specifications that follow one game keep that game in the variables of
\* the GameManager section above.
EmptyManager ==
    [games |-> << >>, player_games |-> << >>, snapshots |-> << >>]

NoManager == manager = EmptyManager

\* No dice rolled yet (last_dice_roll is None).
NoRoll == << >>

\* The Game object as one value.
G ==
    [players |-> players, player_order |-> player_order,
     current_player_index |-> current_player_index, phase |-> phase,
     turn_number |-> turn_number, last_dice_roll |-> last_dice_roll,
     winner_id |-> winner_id, properties |-> properties,
     houses_available |-> houses_available,
     hotels_available |-> hotels_available, chance |-> chance,
     chance_discard |-> chance_discard, community_chest |-> community_chest,
     community_chest_discard |-> community_chest_discard, owed |-> owed,
     events |-> events, last_three_doubles |-> last_three_doubles,
     free_rolls |-> free_rolls, last_roll_by |-> last_roll_by,
     \* the orders random.shuffle leaves if this call reshuffles a deck
     reshuffle_chance |-> << >>, reshuffle_community_chest |-> << >>]

\* The Game object after a method has run.
Commit(g) ==
    /\ players' = g.players
    /\ player_order' = g.player_order
    /\ current_player_index' = g.current_player_index
    /\ phase' = g.phase
    /\ turn_number' = g.turn_number
    /\ last_dice_roll' = g.last_dice_roll
    /\ winner_id' = g.winner_id
    /\ properties' = g.properties
    /\ houses_available' = g.houses_available
    /\ hotels_available' = g.hotels_available
    /\ chance' = g.chance
    /\ chance_discard' = g.chance_discard
    /\ community_chest' = g.community_chest
    /\ community_chest_discard' = g.community_chest_discard
    /\ owed' = g.owed
    /\ events' = g.events
    /\ last_three_doubles' = g.last_three_doubles
    /\ free_rolls' = g.free_rolls
    /\ last_roll_by' = g.last_roll_by

\* The Game object as constructed.
InitGame(g) ==
    /\ players = g.players
    /\ player_order = g.player_order
    /\ current_player_index = g.current_player_index
    /\ phase = g.phase
    /\ turn_number = g.turn_number
    /\ last_dice_roll = g.last_dice_roll
    /\ winner_id = g.winner_id
    /\ properties = g.properties
    /\ houses_available = g.houses_available
    /\ hotels_available = g.hotels_available
    /\ chance = g.chance
    /\ chance_discard = g.chance_discard
    /\ community_chest = g.community_chest
    /\ community_chest_discard = g.community_chest_discard
    /\ owed = g.owed
    /\ events = g.events
    /\ last_three_doubles = g.last_three_doubles
    /\ free_rolls = g.free_rolls
    /\ last_roll_by = g.last_roll_by

(***************************************************************************)
(* Player (server/game_engine/player.py).                                  *)
(***************************************************************************)
NewPlayer ==
    [money |-> STARTING_MONEY, position |-> 0, state |-> "ACTIVE",
     jail_turns |-> 0, jail_cards |-> 0, properties |-> {},
     consecutive_doubles |-> 0, has_rolled |-> FALSE]

\* Player.add_money
add_money(pl, amount) == [pl EXCEPT !.money = pl.money + amount]

\* Player.remove_money: silently refuses when the balance is too small.
remove_money(pl, amount) ==
    IF pl.money >= amount THEN [pl EXCEPT !.money = pl.money - amount] ELSE pl

\* Player.can_afford
can_afford(pl, amount) == pl.money >= amount

\* Player.move_to
move_to(pl, position, collect_go) ==
    LET passed == collect_go /\ position < pl.position /\ pl.state # "IN_JAIL"
        paid   == IF passed THEN add_money(pl, SALARY_AMOUNT) ELSE pl
    IN  [paid EXCEPT !.position = position % BOARD_SIZE]

\* Player.move_forward
move_forward(pl, spaces) ==
    move_to(pl, (pl.position + spaces) % BOARD_SIZE, TRUE)

\* Player.send_to_jail
send_to_jail(pl) ==
    [pl EXCEPT !.position = JAIL_POSITION, !.state = "IN_JAIL",
               !.jail_turns = 0, !.consecutive_doubles = 0]

\* Player.release_from_jail
release_from_jail(pl) == [pl EXCEPT !.state = "ACTIVE", !.jail_turns = 0]

\* Player.declare_bankruptcy
player_declare_bankruptcy(pl) ==
    [pl EXCEPT !.state = "BANKRUPT", !.properties = {}]

\* Player.reset_turn: has_rolled is cleared; consecutive_doubles is only
\* "reset" when it is already 0.
reset_turn(pl) ==
    [pl EXCEPT !.has_rolled = FALSE,
               !.consecutive_doubles =
                   IF pl.consecutive_doubles = 0 THEN 0
                   ELSE pl.consecutive_doubles]

(***************************************************************************)
(* Property and Board (server/game_engine/board.py).                       *)
(***************************************************************************)
NewProperty ==
    [owner_id |-> None, houses |-> 0, has_hotel |-> FALSE,
     is_mortgaged |-> FALSE]

is_owned(pr) == pr.owner_id # None

\* Property.can_be_developed
can_be_developed(pos, pr) ==
    /\ BOARD_SPACES[pos].type = "PROPERTY"
    /\ ~pr.is_mortgaged
    /\ BOARD_SPACES[pos].house_cost # 0

\* Property.development_level
development_level(pr) == IF pr.has_hotel THEN 5 ELSE pr.houses

\* Property.mortgage_value
mortgage_value(pos) == BOARD_SPACES[pos].cost \div 2

\* Property.unmortgage_cost: int(mortgage_value * 1.1)
unmortgage_cost(pos) == (mortgage_value(pos) * 11) \div 10

\* Property.build_house
prop_build_house(pos, pr) ==
    IF ~can_be_developed(pos, pr) \/ pr.houses >= 4 \/ pr.has_hotel
    THEN pr
    ELSE [pr EXCEPT !.houses = pr.houses + 1]

\* Property.build_hotel
prop_build_hotel(pos, pr) ==
    IF ~can_be_developed(pos, pr) \/ pr.houses # 4 \/ pr.has_hotel
    THEN pr
    ELSE [pr EXCEPT !.houses = 0, !.has_hotel = TRUE]

\* Property.sell_house
prop_sell_house(pr) ==
    IF pr.houses <= 0 THEN pr ELSE [pr EXCEPT !.houses = pr.houses - 1]

\* Property.sell_hotel: the hotel turns back into 4 houses.
prop_sell_hotel(pr) ==
    IF ~pr.has_hotel THEN pr ELSE [pr EXCEPT !.has_hotel = FALSE, !.houses = 4]

\* Property.mortgage
prop_mortgage(pr) ==
    IF pr.is_mortgaged \/ pr.houses > 0 \/ pr.has_hotel
    THEN pr
    ELSE [pr EXCEPT !.is_mortgaged = TRUE]

\* Property.unmortgage
prop_unmortgage(pr) ==
    IF ~pr.is_mortgaged THEN pr ELSE [pr EXCEPT !.is_mortgaged = FALSE]

\* Board.get_group_properties
get_group_properties(group) ==
    {pos \in PropertyPositions : BOARD_SPACES[pos].group = group}

\* Board.player_has_monopoly
player_has_monopoly(props, player_id, group) ==
    /\ group \notin {"RAILROAD", "UTILITY"}
    /\ get_group_properties(group) # {}
    /\ \A pos \in get_group_properties(group) : props[pos].owner_id = player_id

\* Board.count_group_owned
count_group_owned(props, player_id, group) ==
    Cardinality({pos \in get_group_properties(group) :
                    props[pos].owner_id = player_id})

\* can_build_house without its last test, the comparison with the least
\* developed property of the group.
can_build_house_uneven(props, pos, player_id) ==
    /\ pos \in PropertyPositions
    /\ props[pos].owner_id = player_id
    /\ can_be_developed(pos, props[pos])
    /\ ~(props[pos].houses >= 4 \/ props[pos].has_hotel)
    /\ player_has_monopoly(props, player_id, BOARD_SPACES[pos].group)

\* Board.can_build_house (the even building rule)
can_build_house(props, pos, player_id) ==
    /\ pos \in PropertyPositions
    /\ props[pos].owner_id = player_id
    /\ can_be_developed(pos, props[pos])
    /\ ~(props[pos].houses >= 4 \/ props[pos].has_hotel)
    /\ player_has_monopoly(props, player_id, BOARD_SPACES[pos].group)
    /\ \A q \in get_group_properties(BOARD_SPACES[pos].group) :
          development_level(props[pos]) <= development_level(props[q])

\* Board.can_build_hotel
can_build_hotel(props, pos, player_id) ==
    /\ pos \in PropertyPositions
    /\ props[pos].owner_id = player_id
    /\ can_be_developed(pos, props[pos])
    /\ ~(props[pos].houses # 4 \/ props[pos].has_hotel)
    /\ player_has_monopoly(props, player_id, BOARD_SPACES[pos].group)
    /\ \A q \in get_group_properties(BOARD_SPACES[pos].group) :
          props[q].houses >= 4 \/ props[q].has_hotel

\* Property.calculate_rent
prop_calculate_rent(pos, pr, dice_roll, same_group_owned, has_monopoly) ==
    LET sp == BOARD_SPACES[pos] IN
    IF pr.is_mortgaged \/ ~is_owned(pr) THEN 0
    ELSE IF sp.type = "PROPERTY" THEN
            IF pr.has_hotel THEN sp.rents[6]
            ELSE IF pr.houses > 0 THEN sp.rents[pr.houses + 1]
            ELSE IF has_monopoly THEN sp.rents[1] * 2
            ELSE sp.rents[1]
    ELSE IF sp.type = "RAILROAD" THEN
            IF 1 <= same_group_owned /\ same_group_owned <= 4
            THEN sp.rents[same_group_owned]
            ELSE sp.rents[1]
    ELSE IF sp.type = "UTILITY" THEN
            dice_roll * UtilityMultiplier(same_group_owned)
    ELSE 0

\* Board.calculate_rent
calculate_rent(props, pos, dice_roll, landing_player_id) ==
    IF pos \notin PropertyPositions \/ ~is_owned(props[pos]) THEN 0
    ELSE IF props[pos].owner_id = landing_player_id THEN 0
    ELSE prop_calculate_rent(
            pos, props[pos], dice_roll,
            count_group_owned(props, props[pos].owner_id, BOARD_SPACES[pos].group),
            player_has_monopoly(props, props[pos].owner_id, BOARD_SPACES[pos].group))

(***************************************************************************)
(* Game: derived properties.                                               *)
(***************************************************************************)
\* Game.current_player: the id of the turn holder, or None.
current_player(g) ==
    IF g.player_order = << >> THEN None
    ELSE LET pid == g.player_order[g.current_player_index + 1] IN
         IF pid \in DOMAIN g.players THEN pid ELSE None

\* Game.active_players
active_players(g) ==
    {p \in DOMAIN g.players : g.players[p].state # "BANKRUPT"}

\* Game.is_game_over
is_game_over(g) ==
    Cardinality(active_players(g)) <= 1 /\ g.phase # "WAITING"

(***************************************************************************)
(* RuleEngine (server/game_engine/rules.py): the validators return TRUE    *)
(* where the code returns ValidationResult.success().                      *)
(***************************************************************************)
\* validate_roll_dice without the check of has_rolled.
validate_roll_dice_any_time(g, pid) ==
    /\ pid = current_player(g)
    /\ g.phase \in {"PRE_ROLL", "POST_ROLL"}

validate_roll_dice(g, pid) ==
    /\ pid = current_player(g)
    /\ g.phase \in {"PRE_ROLL", "POST_ROLL"}
    /\ ~(g.players[pid].has_rolled /\ g.players[pid].state # "IN_JAIL")

\* validate_buy_property without the check of the phase.
validate_buy_property_any_phase(g, pid) ==
    LET pos == g.players[pid].position IN
    /\ pid = current_player(g)
    /\ pos \in PropertyPositions
    /\ ~is_owned(g.properties[pos])
    /\ can_afford(g.players[pid], BOARD_SPACES[pos].cost)

validate_buy_property(g, pid) ==
    LET pos == g.players[pid].position IN
    /\ pid = current_player(g)
    /\ g.phase = "PROPERTY_DECISION"
    /\ pos \in PropertyPositions
    /\ ~is_owned(g.properties[pos])
    /\ can_afford(g.players[pid], BOARD_SPACES[pos].cost)

validate_build_house(g, pid, pos) ==
    /\ pid = current_player(g)
    /\ pos \in PropertyPositions
    /\ g.properties[pos].owner_id = pid
    /\ BOARD_SPACES[pos].type = "PROPERTY"
    /\ ~g.properties[pos].is_mortgaged
    /\ player_has_monopoly(g.properties, pid, BOARD_SPACES[pos].group)
    /\ \A q \in get_group_properties(BOARD_SPACES[pos].group) :
          ~g.properties[q].is_mortgaged
    /\ ~g.properties[pos].has_hotel
    /\ g.properties[pos].houses < MAX_HOUSES_PER_PROPERTY
    /\ can_build_house(g.properties, pos, pid)
    /\ g.houses_available > 0
    /\ can_afford(g.players[pid], BOARD_SPACES[pos].house_cost)

validate_build_hotel(g, pid, pos) ==
    /\ pid = current_player(g)
    /\ pos \in PropertyPositions
    /\ g.properties[pos].owner_id = pid
    /\ BOARD_SPACES[pos].type = "PROPERTY"
    /\ ~g.properties[pos].is_mortgaged
    /\ ~g.properties[pos].has_hotel
    /\ g.properties[pos].houses = MAX_HOUSES_PER_PROPERTY
    /\ can_build_hotel(g.properties, pos, pid)
    /\ g.hotels_available > 0
    /\ can_afford(g.players[pid], BOARD_SPACES[pos].house_cost)

validate_sell_house(g, pid, pos) ==
    /\ pos \in PropertyPositions
    /\ g.properties[pos].owner_id = pid
    /\ ~(g.properties[pos].houses <= 0 /\ ~g.properties[pos].has_hotel)
    /\ g.properties[pos].houses > 0 =>
          \A q \in get_group_properties(BOARD_SPACES[pos].group) :
              development_level(g.properties[pos])
                  >= development_level(g.properties[q])

\* validate_mortgage without the check for buildings.
validate_mortgage_with_buildings(g, pid, pos) ==
    /\ pos \in PropertyPositions
    /\ g.properties[pos].owner_id = pid
    /\ ~g.properties[pos].is_mortgaged

validate_mortgage(g, pid, pos) ==
    /\ pos \in PropertyPositions
    /\ g.properties[pos].owner_id = pid
    /\ ~g.properties[pos].is_mortgaged
    /\ ~(g.properties[pos].houses > 0 \/ g.properties[pos].has_hotel)

validate_unmortgage(g, pid, pos) ==
    /\ pos \in PropertyPositions
    /\ g.properties[pos].owner_id = pid
    /\ g.properties[pos].is_mortgaged
    /\ can_afford(g.players[pid], unmortgage_cost(pos))

validate_pay_bail(g, pid) ==
    /\ pid = current_player(g)
    /\ g.players[pid].state = "IN_JAIL"
    /\ can_afford(g.players[pid], JAIL_BAIL)

validate_use_jail_card(g, pid) ==
    /\ pid = current_player(g)
    /\ g.players[pid].state = "IN_JAIL"
    /\ g.players[pid].jail_cards > 0

validate_end_turn(g, pid) ==
    /\ pid = current_player(g)
    /\ g.phase \notin {"PRE_ROLL", "PROPERTY_DECISION", "PAYING_RENT"}

\* RuleEngine.use_house
use_house(g) ==
    IF g.houses_available > 0
    THEN [g EXCEPT !.houses_available = g.houses_available - 1]
    ELSE g

\* RuleEngine.return_house
return_house(g) == [g EXCEPT !.houses_available = g.houses_available + 1]

\* RuleEngine.use_hotel: the 4 houses go back to the bank.
use_hotel(g) ==
    IF g.hotels_available > 0
    THEN [g EXCEPT !.hotels_available = g.hotels_available - 1,
                   !.houses_available = g.houses_available + 4]
    ELSE g

\* RuleEngine.return_hotel giving the hotel back without taking the 4
\* houses that replace it.
return_hotel_only(g) == [g EXCEPT !.hotels_available = @ + 1]

\* RuleEngine.return_hotel: takes 4 houses from the bank, unchecked.
return_hotel(g) ==
    [g EXCEPT !.hotels_available = g.hotels_available + 1,
              !.houses_available = g.houses_available - 4]

\* The first position of `positions` met scanning forward from `position`.
NearestOf(position, positions, fallback) ==
    LET steps == {i \in 1..(BOARD_SIZE - 1) :
                     (position + i) % BOARD_SIZE \in positions}
    IN  IF steps = {} THEN fallback
        ELSE (position + CHOOSE i \in steps : \A j \in steps : i <= j)
                 % BOARD_SIZE

\* RuleEngine.get_nearest_utility
get_nearest_utility(position) == NearestOf(position, {12, 28}, 12)

\* RuleEngine.get_nearest_railroad
get_nearest_railroad(position) == NearestOf(position, {5, 15, 25, 35}, 5)

(***************************************************************************)
(* CardDeck (server/game_engine/cards.py).  A deck is the list of the      *)
(* indices of its cards in the card table, top card first.                 *)
(***************************************************************************)
\* The orders random.shuffle can leave a list in.
Shuffles(order) ==
    {s \in [1..Len(order) -> {order[i] : i \in 1..Len(order)}] :
        \A c \in {order[i] : i \in 1..Len(order)} :
            Cardinality({i \in 1..Len(order) : s[i] = c})
                = Cardinality({i \in 1..Len(order) : order[i] = c})}

\* The outcomes of the reshuffle CardDeck.draw makes when the cards have
\* run out; << >> when it makes none.
ReshuffleChoices(cards, discard) ==
    IF cards # << >> THEN {<< >>} ELSE Shuffles(discard)

\* CardDeck.draw: <<cards, discard, card>> afterwards.
deck_draw(cards, discard, table, reshuffled) ==
    LET cards1   == IF cards = << >> THEN reshuffled ELSE cards
        discard1 == IF cards = << >> THEN << >> ELSE discard
        card     == Head(cards1)
    IN  << Tail(cards1),
           IF table[card].keep THEN discard1 ELSE Append(discard1, card),
           card >>

\* CardDeck.return_card
return_card(discard, card) == Append(discard, card)

\* The index of the Get Out of Jail Free card in CHANCE_CARDS.
ChanceJailCard == CHOOSE c \in CardIdx : CHANCE_CARDS[c].keep

\* CardManager.return_jail_card(CardType.CHANCE), as Game.use_jail_card
\* calls it: a Chance Get Out of Jail Free card is put on the Chance discard
\* pile.
return_jail_card_chance(g) ==
    [g EXCEPT !.chance_discard = return_card(g.chance_discard, ChanceJailCard)]

\* Game._log_event, for the event types the model counts.
log_event(g, event_type) ==
    [g EXCEPT !.events[event_type] = g.events[event_type] + 1]

(***************************************************************************)
(* Game (server/game_engine/game.py): methods, as functions of the Game    *)
(* value g.  pid is always a key of g.players.                             *)
(***************************************************************************)
\* The turn is blocked on a payment of `amount` the player cannot afford.
Blocked(g, amount) == [g EXCEPT !.phase = "PAYING_RENT", !.owed = amount]

\* The index _advance_turn stops at: the next index after the current one
\* whose player is not bankrupt, or the current one after a full circle.
NextIndex(g) ==
    LET n     == Len(g.player_order)
        start == g.current_player_index
        At(k) == g.player_order[((start + k) % n) + 1]
        stops == {k \in 1..(n - 1) :
                     /\ At(k) \in DOMAIN g.players
                     /\ g.players[At(k)].state # "BANKRUPT"}
    IN  IF stops = {} THEN start
        ELSE (start + (CHOOSE k \in stops : \A j \in stops : k <= j)) % n

\* Game._advance_turn
advance_turn(g) ==
    IF g.player_order = << >> THEN g
    ELSE
      LET g1  == [g EXCEPT !.current_player_index = NextIndex(g),
                           !.turn_number = g.turn_number + 1,
                           !.phase = "PRE_ROLL", !.owed = 0]
          cur == current_player(g1)
      IN  IF cur = None THEN g1
          ELSE LET pl == reset_turn(g1.players[cur]) IN
               [g1 EXCEPT !.players[cur] =
                   IF pl.state = "IN_JAIL"
                   THEN [pl EXCEPT !.jail_turns = pl.jail_turns + 1]
                   ELSE pl]

\* Game._end_game: active_players[0] is the first non-bankrupt player in
\* the order the players joined, which is the order of player_order before
\* the shuffle; _end_game runs with at most one of them.
end_game(g) ==
    LET act == active_players(g) IN
    [g EXCEPT !.phase = "GAME_OVER", !.owed = 0,
              !.winner_id = IF act = {} THEN g.winner_id
                            ELSE CHOOSE p \in act : TRUE]

\* The properties of a player returned to the bank, one at a time.
RECURSIVE return_to_bank(_, _)
return_to_bank(g, todo) ==
    IF todo = {} THEN g
    ELSE
      LET pos  == CHOOSE x \in todo : TRUE
          pr   == g.properties[pos]
          \* while prop.has_hotel: sell_hotel(); return_hotel()
          g1   == IF pr.has_hotel
                  THEN [return_hotel(g) EXCEPT
                            !.properties[pos] = prop_sell_hotel(pr)]
                  ELSE g
          \* while prop.houses > 0: sell_house(); return_house()
          n    == g1.properties[pos].houses
          g2   == [g1 EXCEPT !.houses_available = g1.houses_available + n,
                             !.properties[pos].houses = 0]
          g3   == [g2 EXCEPT !.properties[pos].owner_id = None,
                             !.properties[pos].is_mortgaged = FALSE]
      IN  return_to_bank(g3, todo \ {pos})

\* Game._handle_bankruptcy; creditor is a key of g.players, or None.
handle_bankruptcy(g, pid, creditor) ==
    LET held == g.players[pid].properties
        g1 ==
          IF creditor # None
          THEN
            LET ps1 == [g.players EXCEPT ![creditor] =
                           add_money(@, g.players[pid].money)]
                ps2 == [ps1 EXCEPT ![creditor].jail_cards =
                           ps1[creditor].jail_cards + ps1[pid].jail_cards]
                ps3 == [ps2 EXCEPT ![creditor].properties =
                           ps2[creditor].properties \cup held]
            IN  [g EXCEPT !.players = ps3,
                          !.properties =
                              [pos \in PropertyPositions |->
                                  IF pos \in held
                                  THEN [g.properties[pos] EXCEPT
                                            !.owner_id = creditor]
                                  ELSE g.properties[pos]]]
          ELSE return_to_bank(g, held \cap PropertyPositions)
    IN  log_event([g1 EXCEPT !.players[pid] =
                                 player_declare_bankruptcy(g1.players[pid])],
                  "bankruptcy")

\* Game.add_player (success)
add_player(g, pid) ==
    [g EXCEPT !.players = (pid :> NewPlayer) @@ g.players,
              !.player_order = Append(g.player_order, pid)]

\* list.remove(x): the list without the first x.
list_remove(seq, x) ==
    LET first == CHOOSE i \in 1..Len(seq) :
                    seq[i] = x /\ \A j \in 1..(i - 1) : seq[j] # x
    IN  [i \in 1..(Len(seq) - 1) |->
            IF i < first THEN seq[i] ELSE seq[i + 1]]

\* remove_player taking the player out of the roster in every phase.
remove_player_from_roster(g, pid) ==
    [g EXCEPT
        !.players = [q \in DOMAIN g.players \ {pid} |-> g.players[q]],
        !.player_order = list_remove(g.player_order, pid)]

\* Game.remove_player (success: pid is a key of g.players)
remove_player(g, pid) ==
    IF g.phase = "WAITING"
    THEN [g EXCEPT
            !.players = [q \in DOMAIN g.players \ {pid} |-> g.players[q]],
            !.player_order = list_remove(g.player_order, pid)]
    ELSE handle_bankruptcy(g, pid, None)

\* Game.start_game (success); order is what random.shuffle leaves.
start_game(g, order) ==
    LET g1  == [g EXCEPT !.player_order = order, !.phase = "PRE_ROLL",
                         !.turn_number = 1]
        cur == current_player(g1)
    IN  IF cur = None THEN g1
        ELSE [g1 EXCEPT !.players[cur] = reset_turn(g1.players[cur])]

(***************************************************************************)
(* Game: rolling, moving and landing.                                      *)
(***************************************************************************)
RECURSIVE handle_landing(_, _)
RECURSIVE execute_card(_, _, _)

\* _handle_property_landing taking the rent without asking can_afford.
handle_property_landing_unchecked(g, pid) ==
    LET pl   == g.players[pid]
        pos  == pl.position
        pr   == g.properties[pos]
        rent == calculate_rent(g.properties, pos,
                               g.last_dice_roll[1] + g.last_dice_roll[2], pid)
    IN  IF ~is_owned(pr) THEN [g EXCEPT !.phase = "PROPERTY_DECISION"]
        ELSE IF pr.owner_id = pid THEN [g EXCEPT !.phase = "POST_ROLL"]
        ELSE IF rent = 0 THEN [g EXCEPT !.phase = "POST_ROLL"]
        ELSE LET ps1 == [g.players EXCEPT ![pid] = add_money(@, 0 - rent)]
                 ps2 == IF pr.owner_id \in DOMAIN ps1
                        THEN [ps1 EXCEPT ![pr.owner_id] = add_money(@, rent)]
                        ELSE ps1
             IN  [g EXCEPT !.players = ps2, !.phase = "POST_ROLL"]

\* Game._handle_property_landing
handle_property_landing(g, pid) ==
    LET pl   == g.players[pid]
        pos  == pl.position
        pr   == g.properties[pos]
        rent == calculate_rent(g.properties, pos,
                               g.last_dice_roll[1] + g.last_dice_roll[2], pid)
    IN  IF ~is_owned(pr) THEN [g EXCEPT !.phase = "PROPERTY_DECISION"]
        ELSE IF pr.owner_id = pid THEN [g EXCEPT !.phase = "POST_ROLL"]
        ELSE IF rent = 0 THEN [g EXCEPT !.phase = "POST_ROLL"]
        ELSE IF can_afford(pl, rent)
        THEN LET ps1 == [g.players EXCEPT ![pid] = remove_money(@, rent)]
                 ps2 == IF pr.owner_id \in DOMAIN ps1
                        THEN [ps1 EXCEPT ![pr.owner_id] = add_money(@, rent)]
                        ELSE ps1
             IN  [g EXCEPT !.players = ps2, !.phase = "POST_ROLL"]
        ELSE Blocked(g, rent)

\* Game._handle_card
handle_card(g, pid, card_type) ==
    IF card_type = "CHANCE"
    THEN LET d == deck_draw(g.chance, g.chance_discard, CHANCE_CARDS,
                            g.reshuffle_chance)
         IN  execute_card([g EXCEPT !.chance = d[1], !.chance_discard = d[2]],
                          pid, CHANCE_CARDS[d[3]])
    ELSE LET d == deck_draw(g.community_chest, g.community_chest_discard,
                            COMMUNITY_CHEST_CARDS, g.reshuffle_community_chest)
         IN  execute_card([g EXCEPT !.community_chest = d[1],
                                    !.community_chest_discard = d[2]],
                          pid, COMMUNITY_CHEST_CARDS[d[3]])

\* Game._handle_landing
handle_landing(g, pid) ==
    LET pl    == g.players[pid]
        space == BOARD_SPACES[pl.position]
    IN  CASE space.type \in {"GO", "JAIL", "FREE_PARKING"} ->
               [g EXCEPT !.phase = "POST_ROLL"]
          [] space.type = "GO_TO_JAIL" ->
               [g EXCEPT !.players[pid] = send_to_jail(pl),
                         !.phase = "POST_ROLL"]
          [] space.type = "TAX" ->
               IF can_afford(pl, space.cost)
               THEN [g EXCEPT !.players[pid] = remove_money(pl, space.cost),
                              !.phase = "POST_ROLL"]
               ELSE Blocked(g, space.cost)
          [] space.type = "CHANCE" -> handle_card(g, pid, "CHANCE")
          [] space.type = "COMMUNITY_CHEST" ->
               handle_card(g, pid, "COMMUNITY_CHEST")
          [] space.type \in {"PROPERTY", "RAILROAD", "UTILITY"} ->
               handle_property_landing(g, pid)
          [] OTHER -> [g EXCEPT !.phase = "POST_ROLL"]

\* The sum of f over the finite set S.
RECURSIVE SumOver(_, _)
SumOver(S, f) ==
    IF S = {} THEN 0
    ELSE LET x == CHOOSE y \in S : TRUE IN f[x] + SumOver(S \ {x}, f)

\* Game._execute_card
execute_card(g, pid, card) ==
    LET pl     == g.players[pid]
        others == active_players(g) \ {pid}
    IN  CASE card.action = "COLLECT_MONEY" ->
               [g EXCEPT !.players[pid] = add_money(pl, card.value),
                         !.phase = "POST_ROLL"]
          [] card.action = "PAY_MONEY" ->
               IF can_afford(pl, card.value)
               THEN [g EXCEPT !.players[pid] = remove_money(pl, card.value),
                              !.phase = "POST_ROLL"]
               ELSE Blocked(g, card.value)
          [] card.action = "COLLECT_FROM_PLAYERS" ->
               LET amount == [o \in others |->
                                 IF card.value < g.players[o].money
                                 THEN card.value ELSE g.players[o].money]
                   total  == SumOver(others, amount)
               IN  [g EXCEPT !.players =
                        [q \in DOMAIN g.players |->
                            IF q \in others
                            THEN remove_money(g.players[q], amount[q])
                            ELSE IF q = pid THEN add_money(pl, total)
                            ELSE g.players[q]],
                        !.phase = "POST_ROLL"]
          [] card.action = "PAY_TO_PLAYERS" ->
               LET total_owed ==
                       card.value * (Cardinality(active_players(g)) - 1)
               IN  IF can_afford(pl, total_owed)
                   THEN [g EXCEPT !.players =
                            [q \in DOMAIN g.players |->
                                IF q \in others
                                THEN add_money(g.players[q], card.value)
                                ELSE IF q = pid
                                THEN remove_money(pl, total_owed)
                                ELSE g.players[q]],
                            !.phase = "POST_ROLL"]
                   ELSE Blocked(g, total_owed)
          [] card.action = "MOVE_TO" ->
               LET new_pos == IF card.value = -1
                              THEN get_nearest_utility(pl.position)
                              ELSE IF card.value = -2
                              THEN get_nearest_railroad(pl.position)
                              ELSE card.value
               IN  handle_landing(
                       [g EXCEPT !.players[pid] = move_to(pl, new_pos, TRUE)],
                       pid)
          [] card.action = "MOVE_BACK" ->
               LET new_pos == (pl.position - card.value) % BOARD_SIZE
               IN  handle_landing(
                       [g EXCEPT !.players[pid] = move_to(pl, new_pos, FALSE)],
                       pid)
          [] card.action = "GO_TO_JAIL" ->
               [g EXCEPT !.players[pid] = send_to_jail(pl),
                         !.phase = "POST_ROLL"]
          [] card.action = "GET_OUT_OF_JAIL" ->
               [g EXCEPT !.players[pid].jail_cards = pl.jail_cards + 1,
                         !.phase = "POST_ROLL"]
          [] card.action = "REPAIRS" ->
               LET cost == [pos \in pl.properties \cap PropertyPositions |->
                              g.properties[pos].houses * card.per_house
                              + (IF g.properties[pos].has_hotel
                                 THEN card.per_hotel ELSE 0)]
                   total_cost ==
                       SumOver(pl.properties \cap PropertyPositions, cost)
               IN  IF can_afford(pl, total_cost)
                   THEN [g EXCEPT !.players[pid] = remove_money(pl, total_cost),
                                  !.phase = "POST_ROLL"]
                   ELSE Blocked(g, total_cost)
          [] OTHER -> [g EXCEPT !.phase = "POST_ROLL"]

\* Game._move_player
move_player(g, pid, spaces) ==
    handle_landing(
        [g EXCEPT !.players[pid] = move_forward(g.players[pid], spaces)], pid)

\* Game._handle_jail_roll
\* _handle_jail_roll without the forced bail of the third jailed turn.
handle_jail_roll_no_limit(g, pid) ==
    LET pl     == g.players[pid]
        die1   == g.last_dice_roll[1]
        die2   == g.last_dice_roll[2]
    IN  IF die1 = die2
        THEN move_player([g EXCEPT !.players[pid] = release_from_jail(pl)],
                         pid, die1 + die2)
        ELSE [g EXCEPT !.phase = "POST_ROLL"]

\* Game._handle_jail_roll
handle_jail_roll(g, pid) ==
    LET pl     == g.players[pid]
        die1   == g.last_dice_roll[1]
        die2   == g.last_dice_roll[2]
    IN  IF die1 = die2
        THEN move_player([g EXCEPT !.players[pid] = release_from_jail(pl)],
                         pid, die1 + die2)
        ELSE IF pl.jail_turns >= MAX_JAIL_TURNS
        THEN IF can_afford(pl, JAIL_BAIL)
             THEN move_player(
                      [g EXCEPT !.players[pid] =
                          release_from_jail(remove_money(pl, JAIL_BAIL))],
                      pid, die1 + die2)
             ELSE Blocked(g, JAIL_BAIL)
        ELSE [g EXCEPT !.phase = "POST_ROLL"]

\* Game.roll_dice (validation passed); die1, die2 is what Dice.roll returns.
roll_dice(g, pid, die1, die2) ==
    LET g1 == log_event([g EXCEPT !.last_dice_roll = << die1, die2 >>,
                                  !.players[pid].has_rolled = TRUE,
                                  !.free_rolls[pid] =
                                      IF g.players[pid].state = "IN_JAIL"
                                      THEN @ ELSE @ + 1,
                                  !.last_roll_by =
                                      << pid,
                                         g.players[pid].state = "IN_JAIL" >>],
                        "dice_rolled")
        pl == g1.players[pid]
    IN  IF pl.state = "IN_JAIL" THEN handle_jail_roll(g1, pid)
        ELSE IF die1 = die2
        THEN LET pl1 == [pl EXCEPT !.consecutive_doubles =
                                       pl.consecutive_doubles + 1]
             IN  IF pl1.consecutive_doubles >= 3
                 THEN [g1 EXCEPT !.players[pid] = send_to_jail(pl1),
                                 !.phase = "POST_ROLL",
                                 !.last_three_doubles =
                                     << pid, g1.turn_number >>]
                 ELSE move_player([g1 EXCEPT !.players[pid] = pl1],
                                  pid, die1 + die2)
        ELSE move_player([g1 EXCEPT !.players[pid].consecutive_doubles = 0],
                         pid, die1 + die2)

(***************************************************************************)
(* Game: property, jail, turn and bankruptcy methods (validation passed).  *)
(***************************************************************************)
\* Game.buy_property
buy_property(g, pid) ==
    LET pos == g.players[pid].position
        pl  == remove_money(g.players[pid], BOARD_SPACES[pos].cost)
    IN  [g EXCEPT !.players[pid] =
                      [pl EXCEPT !.properties = pl.properties \cup {pos}],
                  !.properties[pos].owner_id = pid,
                  !.phase = "POST_ROLL"]

\* Game.decline_property: the guard it checks itself.
can_decline_property(g, pid) ==
    /\ g.phase = "PROPERTY_DECISION"
    /\ pid = current_player(g)

\* Game.decline_property
decline_property(g, pid) == [g EXCEPT !.phase = "POST_ROLL"]

\* Game.build_house
build_house(g, pid, pos) ==
    log_event(
        use_house(
            [g EXCEPT !.players[pid] =
                          remove_money(@, BOARD_SPACES[pos].house_cost),
                      !.properties[pos] = prop_build_house(pos, @)]),
        "house_built")

\* Game.build_hotel
build_hotel(g, pid, pos) ==
    log_event(
        use_hotel(
            [g EXCEPT !.players[pid] =
                          remove_money(@, BOARD_SPACES[pos].house_cost),
                      !.properties[pos] = prop_build_hotel(pos, @)]),
        "hotel_built")

\* Game.sell_building: both Property.sell_hotel and Property.sell_house
\* refund house_cost // 2.
sell_building(g, pid, pos) ==
    LET refund == BOARD_SPACES[pos].house_cost \div 2
        g1 == IF g.properties[pos].has_hotel
              THEN return_hotel(
                       [g EXCEPT !.properties[pos] = prop_sell_hotel(@)])
              ELSE return_house(
                       [g EXCEPT !.properties[pos] = prop_sell_house(@)])
    IN  log_event([g1 EXCEPT !.players[pid] = add_money(@, refund)],
                  "building_sold")

\* Game.mortgage_property
mortgage_property(g, pid, pos) ==
    LET pr == g.properties[pos]
        \* what Property.mortgage returns
        value == IF pr.is_mortgaged \/ pr.houses > 0 \/ pr.has_hotel
                 THEN 0 ELSE mortgage_value(pos)
    IN  log_event([g EXCEPT !.properties[pos] = prop_mortgage(@),
                            !.players[pid] = add_money(@, value)],
                  "property_mortgaged")

\* Game.unmortgage_property
unmortgage_property(g, pid, pos) ==
    log_event([g EXCEPT !.players[pid] = remove_money(@, unmortgage_cost(pos)),
                        !.properties[pos] = prop_unmortgage(@)],
              "property_unmortgaged")

\* Game.pay_bail
pay_bail(g, pid) ==
    [g EXCEPT !.players[pid] = release_from_jail(remove_money(@, JAIL_BAIL))]

\* Game.use_jail_card
use_jail_card(g, pid) ==
    return_jail_card_chance(
        [g EXCEPT !.players[pid] =
            release_from_jail([@ EXCEPT !.jail_cards = @ - 1])])

\* Game.end_turn
end_turn(g, pid) ==
    LET pl == g.players[pid]
        g0 == [g EXCEPT !.free_rolls = [p \in PlayerIds |-> 0],
                        !.last_roll_by = << None, FALSE >>]
    IN
    IF /\ g.last_dice_roll # NoRoll
       /\ g.last_dice_roll[1] = g.last_dice_roll[2]
       /\ pl.consecutive_doubles < 3
       /\ pl.state # "IN_JAIL"
    THEN [g0 EXCEPT !.phase = "PRE_ROLL", !.players[pid].has_rolled = FALSE]
    ELSE IF is_game_over(g0) THEN end_game(g0)
    ELSE advance_turn(g0)

\* Game.declare_bankruptcy; creditor_id is whatever the request carried.
declare_bankruptcy(g, pid, creditor_id) ==
    LET creditor == IF creditor_id \in DOMAIN g.players
                    THEN creditor_id ELSE None
        g1 == handle_bankruptcy(g, pid, creditor)
    IN  IF is_game_over(g1) THEN end_game(g1)
        ELSE IF current_player(g1) = pid THEN advance_turn(g1)
        ELSE g1

(***************************************************************************)
(* Game: the public methods as called, with what they return.  Returned    *)
(* and Refused are the (success, ...) tuples with the game as the call     *)
(* leaves it.                                                              *)
(***************************************************************************)
Returned(g) == [success |-> TRUE, game |-> g]
Refused(g) == [success |-> FALSE, game |-> g]

\* Game.roll_dice
call_roll_dice(g, pid, die1, die2) ==
    IF pid \notin DOMAIN g.players THEN Refused(g)
    ELSE IF ~ validate_roll_dice(g, pid) THEN Refused(g)
    ELSE Returned(roll_dice(g, pid, die1, die2))

\* Game.buy_property
call_buy_property(g, pid) ==
    IF pid \notin DOMAIN g.players THEN Refused(g)
    ELSE IF ~ validate_buy_property(g, pid) THEN Refused(g)
    ELSE Returned(buy_property(g, pid))

\* build_house taking the price before it validates the request.
call_build_house_pay_first(g, pid, pos) ==
    IF pid \notin DOMAIN g.players THEN Refused(g)
    ELSE LET g1 == [g EXCEPT !.players[pid] =
                        add_money(@, 0 - BOARD_SPACES[pos].house_cost)]
         IN  IF ~ validate_build_house(g1, pid, pos) THEN Refused(g1)
             ELSE Returned(build_house(g, pid, pos))

\* Game.build_house
call_build_house(g, pid, pos) ==
    IF pid \notin DOMAIN g.players THEN Refused(g)
    ELSE IF ~ validate_build_house(g, pid, pos) THEN Refused(g)
    ELSE Returned(build_house(g, pid, pos))

\* Game.build_hotel
call_build_hotel(g, pid, pos) ==
    IF pid \notin DOMAIN g.players THEN Refused(g)
    ELSE IF ~ validate_build_hotel(g, pid, pos) THEN Refused(g)
    ELSE Returned(build_hotel(g, pid, pos))

\* Game.sell_building
call_sell_building(g, pid, pos) ==
    IF pid \notin DOMAIN g.players THEN Refused(g)
    ELSE IF ~ validate_sell_house(g, pid, pos) THEN Refused(g)
    ELSE Returned(sell_building(g, pid, pos))

\* Game.mortgage_property
call_mortgage_property(g, pid, pos) ==
    IF pid \notin DOMAIN g.players THEN Refused(g)
    ELSE IF ~ validate_mortgage(g, pid, pos) THEN Refused(g)
    ELSE Returned(mortgage_property(g, pid, pos))

\* Game.unmortgage_property
call_unmortgage_property(g, pid, pos) ==
    IF pid \notin DOMAIN g.players THEN Refused(g)
    ELSE IF ~ validate_unmortgage(g, pid, pos) THEN Refused(g)
    ELSE Returned(unmortgage_property(g, pid, pos))

\* Game.pay_bail
call_pay_bail(g, pid) ==
    IF pid \notin DOMAIN g.players THEN Refused(g)
    ELSE IF ~ validate_pay_bail(g, pid) THEN Refused(g)
    ELSE Returned(pay_bail(g, pid))

\* Game.use_jail_card
call_use_jail_card(g, pid) ==
    IF pid \notin DOMAIN g.players THEN Refused(g)
    ELSE IF ~ validate_use_jail_card(g, pid) THEN Refused(g)
    ELSE Returned(use_jail_card(g, pid))

\* Game.end_turn
call_end_turn(g, pid) ==
    IF pid \notin DOMAIN g.players THEN Refused(g)
    ELSE IF ~ validate_end_turn(g, pid) THEN Refused(g)
    ELSE Returned(end_turn(g, pid))

\* Game.decline_property
call_decline_property(g, pid) ==
    IF pid \notin DOMAIN g.players THEN Refused(g)
    ELSE IF g.phase # "PROPERTY_DECISION" THEN Refused(g)
    ELSE IF pid # current_player(g) THEN Refused(g)
    ELSE Returned(decline_property(g, pid))

\* Game.add_player
call_add_player(g, pid) ==
    IF g.phase # "WAITING" THEN Refused(g)
    ELSE IF Cardinality(DOMAIN g.players) >= max_players THEN Refused(g)
    ELSE Returned(add_player(g, pid))

\* Game.start_game; order is what random.shuffle leaves.
call_start_game(g, order) ==
    IF g.phase # "WAITING" THEN Refused(g)
    ELSE IF Cardinality(DOMAIN g.players) < min_players THEN Refused(g)
    ELSE Returned(start_game(g, order))

(***************************************************************************)
(* Construction.                                                           *)
(***************************************************************************)
\* The event types the model counts in Game.events.
EventTypes ==
    {"dice_rolled", "bankruptcy", "house_built", "hotel_built",
     "building_sold", "property_mortgaged", "property_unmortgaged"}

\* The number of building and mortgage events logged.
AssetEvents(g) ==
    g.events["house_built"] + g.events["hotel_built"]
    + g.events["building_sold"] + g.events["property_mortgaged"]
    + g.events["property_unmortgaged"]

\* A card table cut after its first k cards: one of the orders
\* CardDeck.reset's random.shuffle can leave.
Cut(k) == [i \in CardIdx |-> ((i + k - 1) % 16) + 1]

\* The shuffles considered for a new CardManager: <<Chance, Community Chest>>.
\* Both decks have their Get Out of Jail Free card on top, then a card that
\* moves the player.
ShuffledDecks == { << Cut(6), Cut(4) >> }

\* Game(): the dataclass defaults, with the decks as shuffled.
NewGame(decks) ==
    [players |-> << >>, player_order |-> << >>, current_player_index |-> 0,
     phase |-> "WAITING", turn_number |-> 0, last_dice_roll |-> NoRoll,
     winner_id |-> None,
     properties |-> [pos \in PropertyPositions |-> NewProperty],
     houses_available |-> TOTAL_HOUSES, hotels_available |-> TOTAL_HOTELS,
     chance |-> decks[1], chance_discard |-> << >>,
     community_chest |-> decks[2], community_chest_discard |-> << >>,
     owed |-> 0, events |-> [t \in EventTypes |-> 0],
     last_three_doubles |-> << None, 0 >>,
     free_rolls |-> [p \in PlayerIds |-> 0],
     last_roll_by |-> << None, FALSE >>,
     reshuffle_chance |-> << >>, reshuffle_community_chest |-> << >>]

\* No game is managed: the server has just started.
InitNew ==
    /\ \E decks \in ShuffledDecks : InitGame(NewGame(decks))
    /\ game_exists = FALSE
    /\ host_player_id = None
    /\ player_games = {}
    /\ last_saved_turn = 0
    /\ NoNetwork
    /\ NoManager

\* The Property objects of the saved game of InitMid.
MidProperties ==
    [pos \in PropertyPositions |->
        CASE pos = 1 ->
               [owner_id |-> 1, houses |-> 0, has_hotel |-> TRUE,
                is_mortgaged |-> FALSE]
          [] pos \in {3, 6, 8, 9, 11, 13, 14} ->
               [owner_id |-> 1, houses |-> 4, has_hotel |-> FALSE,
                is_mortgaged |-> FALSE]
          [] pos \in {37, 39} ->
               [owner_id |-> 1, houses |-> 1, has_hotel |-> FALSE,
                is_mortgaged |-> FALSE]
          [] pos \in {5, 15} ->
               [owner_id |-> 2, houses |-> 0, has_hotel |-> FALSE,
                is_mortgaged |-> FALSE]
          [] OTHER -> NewProperty]

\* The Player objects of the saved game of InitMid.
MidPlayers ==
    (1 :> [NewPlayer EXCEPT !.money = 500, !.position = 1,
               !.properties = {1, 3, 6, 8, 9, 11, 13, 14, 37, 39}])
    @@ (2 :> [NewPlayer EXCEPT !.money = 40, !.position = 35,
                  !.properties = {5, 15}])

\* A two-player game saved at the start of player 2's turn late in the game and
\* brought back by GameManager.load_game: Game.from_dict leaves a new
\* CardManager and an empty event log, Player.from_dict the default
\* has_rolled and consecutive_doubles, load_game makes the first player of
\* player_order the host and maps every player to the game.
InitMid ==
    /\ \E decks \in ShuffledDecks :
          InitGame([NewGame(decks) EXCEPT
                     !.players = MidPlayers,
                     !.player_order = << 1, 2 >>,
                     !.current_player_index = 1,
                     !.phase = "PRE_ROLL",
                     !.turn_number = MidTurn,
                     !.last_dice_roll = << 1, 2 >>,
                     !.properties = MidProperties,
                     !.houses_available = 2,
                     !.hotels_available = TOTAL_HOTELS - 1])
    /\ game_exists = TRUE
    /\ host_player_id = 1
    /\ player_games = {1, 2}
    /\ last_saved_turn = MidTurn
    /\ NoNetwork
    /\ NoManager

\* The shuffles considered for the CardManager of InitPayments: on top of
\* Chance the repairs, the fine or the payment to each player, on top of
\* Community Chest the collection from each player, the fee or the repairs.
PaymentDecks == { << Cut(9), Cut(8) >>, << Cut(10), Cut(10) >>,
                  << Cut(12), Cut(13) >> }

\* Where the players of InitPayments stand, << player 1, player 2 >>: two
\* spaces before a card space, or both in jail.
PaymentPositions == { << 5, 31 >>, << 0, 34 >>,
                      << JAIL_POSITION, JAIL_POSITION >> }

\* The Property objects of the saved games of InitPayments: as MidProperties
\* before the hotel was built, with 30 houses on the board.
PaymentProperties ==
    [pos \in PropertyPositions |->
        CASE pos = 1 -> [MidProperties[pos] EXCEPT !.houses = 4,
                                                   !.has_hotel = FALSE]
          [] pos \in {3, 11, 13, 14} -> [MidProperties[pos] EXCEPT !.houses = 3]
          [] OTHER -> MidProperties[pos]]

\* A saved Player standing on position; on JAIL_POSITION the player is
\* IN_JAIL, has used up the attempts to roll doubles and holds a Get Out of
\* Jail Free card.
PaymentPlayer(pl, position) ==
    IF position = JAIL_POSITION
    THEN [pl EXCEPT !.position = position, !.state = "IN_JAIL",
                    !.jail_turns = MAX_JAIL_TURNS, !.jail_cards = 1]
    ELSE [pl EXCEPT !.position = position]

\* Two-player games saved at the start of player 1's turn late in the game
\* and brought back by GameManager.load_game, as InitMid: player 1 holds the
\* buildings and the cash, player 2 cannot afford any payment.
InitPayments ==
    /\ \E decks \in PaymentDecks, pos \in PaymentPositions :
          InitGame([NewGame(decks) EXCEPT
                     !.players =
                         (1 :> PaymentPlayer(MidPlayers[1], pos[1]))
                         @@ (2 :> [PaymentPlayer(
                                       [MidPlayers[2] EXCEPT !.money = 5],
                                       pos[2])
                                   EXCEPT !.jail_turns =
                                       \* the third jailed turn is still
                                       \* to come for who waits in jail
                                       IF pos[2] = JAIL_POSITION
                                       THEN MAX_JAIL_TURNS - 1 ELSE 0]),
                     !.player_order = << 1, 2 >>,
                     !.current_player_index = 0,
                     !.phase = "PRE_ROLL",
                     !.turn_number = MidTurn,
                     !.last_dice_roll = << 1, 2 >>,
                     !.properties = PaymentProperties,
                     !.houses_available = 2,
                     !.hotels_available = TOTAL_HOTELS])
    /\ game_exists = TRUE
    /\ host_player_id = 1
    /\ player_games = {1, 2}
    /\ last_saved_turn = MidTurn
    /\ NoNetwork
    /\ NoManager

(***************************************************************************)
(* Serialization (Game.to_dict / Game.from_dict and what they call).       *)
(***************************************************************************)
\* Game.id of the managed game.
Game_id == "game"

\* Player.to_dict: has_rolled and consecutive_doubles are not written.
player_to_dict(pid, pl) ==
    [id |-> pid, money |-> pl.money, position |-> pl.position,
     state |-> pl.state, jail_turns |-> pl.jail_turns,
     jail_cards |-> pl.jail_cards, properties |-> pl.properties]

\* Player.from_dict without jail_cards.
player_from_dict_no_cards(d) ==
    [NewPlayer EXCEPT !.money = d.money, !.position = d.position,
                      !.state = d.state, !.jail_turns = d.jail_turns,
                      !.properties = d.properties]

\* Player.from_dict: the other fields keep the dataclass defaults.
player_from_dict(d) ==
    [NewPlayer EXCEPT !.money = d.money, !.position = d.position,
                      !.state = d.state, !.jail_turns = d.jail_turns,
                      !.jail_cards = d.jail_cards,
                      !.properties = d.properties]

\* Property.to_dict, the fields that change.
property_to_dict(pos, pr) ==
    [position |-> pos, owner_id |-> pr.owner_id, houses |-> pr.houses,
     has_hotel |-> pr.has_hotel, is_mortgaged |-> pr.is_mortgaged]

\* Board.from_dict: a new Board with the saved fields of the positions it
\* knows.
board_from_dict(d) ==
    [pos \in PropertyPositions |->
        IF pos \in DOMAIN d
        THEN [owner_id |-> d[pos].owner_id, houses |-> d[pos].houses,
              has_hotel |-> d[pos].has_hotel,
              is_mortgaged |-> d[pos].is_mortgaged]
        ELSE NewProperty]

\* Game.to_dict; "cards" is written too and never read back.
to_dict(g) ==
    [id |-> Game_id, phase |-> g.phase, turn_number |-> g.turn_number,
     current_player_index |-> g.current_player_index,
     player_order |-> g.player_order, winner_id |-> g.winner_id,
     last_dice_roll |-> IF g.last_dice_roll = NoRoll THEN << >>
                        ELSE << g.last_dice_roll[1], g.last_dice_roll[2] >>,
     players |-> [pid \in DOMAIN g.players |->
                     player_to_dict(pid, g.players[pid])],
     board |-> [pos \in PropertyPositions |->
                   property_to_dict(pos, g.properties[pos])],
     rules |-> [houses_available |-> g.houses_available,
                hotels_available |-> g.hotels_available]]

\* Game.from_dict: a new Game (new CardManager shuffled as decks, empty
\* event log) with the saved fields.
from_dict(d, decks) ==
    [id |-> d.id,
     game |-> [NewGame(decks) EXCEPT
                 !.phase = d.phase,
                 !.turn_number = d.turn_number,
                 !.current_player_index = d.current_player_index,
                 !.player_order = d.player_order,
                 !.winner_id = d.winner_id,
                 !.last_dice_roll = IF d.last_dice_roll = << >> THEN NoRoll
                                    ELSE d.last_dice_roll,
                 !.players = [pid \in DOMAIN d.players |->
                                 player_from_dict(d.players[pid])],
                 !.properties = board_from_dict(d.board),
                 !.houses_available = d.rules.houses_available,
                 !.hotels_available = d.rules.hotels_available]]

\* The jail_turns of << player 1, player 2 >> in the saved games of InitJail.
\* Player 1 holds the turn, so _advance_turn has counted this turn already.
JailTurnsAtSave == { << 1, 0 >>, << 2, 2 >>, << 3, 1 >> }

\* A saved Player who is IN_JAIL.
JailedPlayer(pl, turns, cards) ==
    [pl EXCEPT !.position = JAIL_POSITION, !.state = "IN_JAIL",
               !.jail_turns = turns, !.jail_cards = cards]

\* Two-player games saved at the start of player 1's turn with both players
\* in jail and brought back by GameManager.load_game, as InitMid: player 1
\* can afford the bail, player 2 cannot and holds a Get Out of Jail Free
\* card.
InitJail ==
    /\ \E decks \in ShuffledDecks, turns \in JailTurnsAtSave :
          InitGame([NewGame(decks) EXCEPT
                     !.players =
                         (1 :> JailedPlayer(MidPlayers[1], turns[1], 0))
                         @@ (2 :> JailedPlayer(
                                      [MidPlayers[2] EXCEPT !.money = 5],
                                      turns[2], 1)),
                     !.player_order = << 1, 2 >>,
                     !.current_player_index = 0,
                     !.phase = "PRE_ROLL",
                     !.turn_number = MidTurn,
                     !.last_dice_roll = << 1, 2 >>,
                     !.properties = PaymentProperties,
                     !.houses_available = 2,
                     !.hotels_available = TOTAL_HOTELS])
    /\ game_exists = TRUE
    /\ host_player_id = 1
    /\ player_games = {1, 2}
    /\ last_saved_turn = MidTurn
    /\ NoNetwork
    /\ NoManager

(***************************************************************************)
(* The message handlers (server/network/message_handler.py) with the       *)
(* GameManager calls they make.  A request that is answered with an error  *)
(* changes nothing and is not a step.                                      *)
(***************************************************************************)
\* MessageHandler._get_player_game succeeds for player_id.
InGame(player_id) == game_exists /\ player_id \in player_games

\* auto_save_if_needed finding nothing to save.
auto_save_skipped(g) == last_saved_turn' = last_saved_turn

\* GameManager.auto_save_if_needed, after the handler has produced game g.
auto_save_if_needed(g) ==
    last_saved_turn' =
        IF g.turn_number > last_saved_turn THEN g.turn_number
        ELSE last_saved_turn

\* CREATE_GAME: GameManager.create_game.
CreateGame(player_id) ==
    /\ ~game_exists
    /\ player_id \notin player_games
    /\ \E decks \in ShuffledDecks :
          Commit(add_player(NewGame(decks), player_id))
    /\ game_exists' = TRUE
    /\ host_player_id' = player_id
    /\ player_games' = player_games \cup {player_id}
    /\ last_saved_turn' = 0
    /\ UNCHANGED << netVars, manager >>

\* JOIN_GAME (not as a spectator): GameManager.join_game.
JoinGame(player_id) ==
    /\ game_exists
    /\ player_id \notin player_games
    /\ phase = "WAITING"
    /\ Cardinality(DOMAIN players) < max_players
    /\ Commit(add_player(G, player_id))
    /\ player_games' = player_games \cup {player_id}
    /\ UNCHANGED << game_exists, host_player_id, last_saved_turn >>
    /\ UNCHANGED << netVars, manager >>

\* LEAVE_GAME: GameManager.leave_game.
LeaveGame(player_id) ==
    /\ InGame(player_id)
    /\ player_id \in DOMAIN players => G.events["bankruptcy"] < MaxBankruptcies
    /\ LET g == IF player_id \in DOMAIN players
                THEN remove_player(G, player_id) ELSE G
       IN  /\ Commit(g)
           /\ game_exists' = ~(g.phase = "WAITING" /\ DOMAIN g.players = {})
    /\ player_games' = player_games \ {player_id}
    /\ UNCHANGED << host_player_id, last_saved_turn >>
    /\ UNCHANGED << netVars, manager >>

\* START_GAME: GameManager.start_game, which saves the started game.
StartGame(player_id) ==
    /\ InGame(player_id)
    /\ player_id = host_player_id
    /\ phase = "WAITING"
    /\ Cardinality(DOMAIN players) >= min_players
    /\ \E order \in Shuffles(player_order) :
          LET g == start_game(G, order) IN
          /\ Commit(g)
          /\ last_saved_turn' = g.turn_number
    /\ UNCHANGED << game_exists, host_player_id, player_games >>
    /\ UNCHANGED << netVars, manager >>

\* KICK_PLAYER: GameManager.remove_player.
KickPlayer(player_id, target_id) ==
    /\ InGame(player_id)
    /\ player_id = host_player_id
    /\ target_id # host_player_id
    /\ target_id \in player_games
    /\ target_id \in DOMAIN players
    /\ G.events["bankruptcy"] < MaxBankruptcies
    /\ Commit(remove_player(G, target_id))
    /\ player_games' = player_games \ {target_id}
    /\ UNCHANGED << game_exists, host_player_id, last_saved_turn >>
    /\ UNCHANGED << netVars, manager >>

\* TRANSFER_HOST
TransferHost(player_id, new_host_id) ==
    /\ InGame(player_id)
    /\ player_id = host_player_id
    /\ new_host_id \in DOMAIN players
    /\ new_host_id # host_player_id
    /\ host_player_id' = new_host_id
    /\ UNCHANGED << gameVars, game_exists, player_games, last_saved_turn >>
    /\ UNCHANGED << netVars, manager >>

\* ROLL_DICE
RollDice(player_id) ==
    /\ InGame(player_id)
    /\ player_id \in DOMAIN players
    /\ validate_roll_dice(G, player_id)
    /\ G.events["dice_rolled"] < MaxRolls
    /\ \E die1, die2 \in 1..MaxDie,
          rc \in ReshuffleChoices(chance, chance_discard),
          rcc \in ReshuffleChoices(community_chest, community_chest_discard) :
          Commit(roll_dice([G EXCEPT !.reshuffle_chance = rc,
                                     !.reshuffle_community_chest = rcc],
                           player_id, die1, die2))
    /\ UNCHANGED sessionVars
    /\ UNCHANGED << netVars, manager >>

\* BUY_PROPERTY
BuyProperty(player_id) ==
    /\ InGame(player_id)
    /\ player_id \in DOMAIN players
    /\ validate_buy_property(G, player_id)
    /\ Commit(buy_property(G, player_id))
    /\ UNCHANGED sessionVars
    /\ UNCHANGED << netVars, manager >>

\* DECLINE_PROPERTY
DeclineProperty(player_id) ==
    /\ InGame(player_id)
    /\ player_id \in DOMAIN players
    /\ can_decline_property(G, player_id)
    /\ Commit(decline_property(G, player_id))
    /\ UNCHANGED sessionVars
    /\ UNCHANGED << netVars, manager >>

\* BUILD_HOUSE
BuildHouse(player_id, position) ==
    /\ InGame(player_id)
    /\ player_id \in DOMAIN players
    /\ validate_build_house(G, player_id, position)
    /\ AssetEvents(G) < MaxAssetEvents
    /\ Commit(build_house(G, player_id, position))
    /\ UNCHANGED sessionVars
    /\ UNCHANGED << netVars, manager >>

\* BUILD_HOTEL
BuildHotel(player_id, position) ==
    /\ InGame(player_id)
    /\ player_id \in DOMAIN players
    /\ validate_build_hotel(G, player_id, position)
    /\ AssetEvents(G) < MaxAssetEvents
    /\ Commit(build_hotel(G, player_id, position))
    /\ UNCHANGED sessionVars
    /\ UNCHANGED << netVars, manager >>

\* SELL_BUILDING
SellBuilding(player_id, position) ==
    /\ InGame(player_id)
    /\ player_id \in DOMAIN players
    /\ validate_sell_house(G, player_id, position)
    /\ AssetEvents(G) < MaxAssetEvents
    /\ Commit(sell_building(G, player_id, position))
    /\ UNCHANGED sessionVars
    /\ UNCHANGED << netVars, manager >>

\* MORTGAGE_PROPERTY
MortgageProperty(player_id, position) ==
    /\ InGame(player_id)
    /\ player_id \in DOMAIN players
    /\ validate_mortgage(G, player_id, position)
    /\ AssetEvents(G) < MaxAssetEvents
    /\ Commit(mortgage_property(G, player_id, position))
    /\ UNCHANGED sessionVars
    /\ UNCHANGED << netVars, manager >>

\* UNMORTGAGE_PROPERTY
UnmortgageProperty(player_id, position) ==
    /\ InGame(player_id)
    /\ player_id \in DOMAIN players
    /\ validate_unmortgage(G, player_id, position)
    /\ AssetEvents(G) < MaxAssetEvents
    /\ Commit(unmortgage_property(G, player_id, position))
    /\ UNCHANGED sessionVars
    /\ UNCHANGED << netVars, manager >>

\* PAY_BAIL
PayBail(player_id) ==
    /\ InGame(player_id)
    /\ player_id \in DOMAIN players
    /\ validate_pay_bail(G, player_id)
    /\ Commit(pay_bail(G, player_id))
    /\ UNCHANGED sessionVars
    /\ UNCHANGED << netVars, manager >>

\* USE_JAIL_CARD
UseJailCard(player_id) ==
    /\ InGame(player_id)
    /\ player_id \in DOMAIN players
    /\ validate_use_jail_card(G, player_id)
    /\ Commit(use_jail_card(G, player_id))
    /\ UNCHANGED sessionVars
    /\ UNCHANGED << netVars, manager >>

\* END_TURN, followed by the auto-save.
EndTurn(player_id) ==
    /\ InGame(player_id)
    /\ player_id \in DOMAIN players
    /\ validate_end_turn(G, player_id)
    /\ LET g == end_turn(G, player_id) IN
          Commit(g) /\ auto_save_if_needed(g)
    /\ UNCHANGED << game_exists, host_player_id, player_games >>
    /\ UNCHANGED << netVars, manager >>

\* PLAYER_BANKRUPT, followed by the auto-save, while the game has seen
\* fewer than `limit` bankruptcies.
BankruptcyRequest(limit, player_id, creditor_id) ==
    /\ InGame(player_id)
    /\ player_id \in DOMAIN players
    /\ G.events["bankruptcy"] < limit
    /\ LET g == declare_bankruptcy(G, player_id, creditor_id) IN
          Commit(g) /\ auto_save_if_needed(g)
    /\ UNCHANGED << game_exists, host_player_id, player_games >>
    /\ UNCHANGED << netVars, manager >>

DeclareBankruptcy(player_id, creditor_id) ==
    BankruptcyRequest(MaxBankruptcies, player_id, creditor_id)

(***************************************************************************)
(* Specifications.                                                         *)
(***************************************************************************)
\* The requests that act on the Game through the engine.
\* The requests about a property name a position of Requested.
NextPlayAt(Requested) ==
    \E player_id \in PlayerIds :
        \/ RollDice(player_id)
        \/ BuyProperty(player_id)
        \/ DeclineProperty(player_id)
        \/ PayBail(player_id)
        \/ UseJailCard(player_id)
        \/ EndTurn(player_id)
        \/ \E position \in Requested :
              \/ BuildHouse(player_id, position)
              \/ BuildHotel(player_id, position)
              \/ SellBuilding(player_id, position)
              \/ MortgageProperty(player_id, position)
              \/ UnmortgageProperty(player_id, position)

NextPlay == NextPlayAt(RequestPositions)

\* PLAYER_BANKRUPT, with every creditor_id a client can send.
NextBankruptcy ==
    \E player_id \in PlayerIds :
        \E creditor_id \in PlayerIds \cup {None, UnknownId} :
            DeclareBankruptcy(player_id, creditor_id)

NextGame == NextPlay \/ NextBankruptcy

\* The lobby and host requests.
NextLobby ==
    \E player_id \in PlayerIds :
        \/ CreateGame(player_id)
        \/ JoinGame(player_id)
        \/ LeaveGame(player_id)
        \/ StartGame(player_id)
        \/ \E target_id \in PlayerIds :
              \/ KickPlayer(player_id, target_id)
              \/ TransferHost(player_id, target_id)

Next == NextLobby \/ NextGame

\* The server has just started, with no game or with a restored one.
Init == InitNew \/ InitMid

Spec == Init /\ [][Next]_vars

\* The engine requests on the restored games of InitPayments.
SpecPayments ==
    InitPayments /\ [][NextPlayAt(PaymentRequestPositions) \/ NextBankruptcy]_vars

\* The requests of a turn in or out of jail.
NextJail ==
    \E player_id \in PlayerIds :
        \/ RollDice(player_id)
        \/ BuyProperty(player_id)
        \/ DeclineProperty(player_id)
        \/ PayBail(player_id)
        \/ UseJailCard(player_id)
        \/ EndTurn(player_id)

\* The turns of the restored games of InitJail.
SpecJail == InitJail /\ [][NextJail]_vars

\* PLAYER_BANKRUPT sent again and again, with every creditor_id.
NextBankruptcies ==
    \E player_id \in PlayerIds :
        \E creditor_id \in PlayerIds \cup {None, UnknownId} :
            BankruptcyRequest(MaxRepeats, player_id, creditor_id)

\* The turns of the restored games of InitJail with repeated bankruptcies.
SpecBankruptcies == InitJail /\ [][NextJail \/ NextBankruptcies]_vars

(***************************************************************************)
(* ConnectionManager (server/network/connection_manager.py).  Its methods  *)
(* are operators over the record C of its four tables; the game they name  *)
(* is the managed game Game_id.                                            *)
(***************************************************************************)
\* The ConnectionManager object as one value.
C ==
    [connections |-> connections, player_to_socket |-> player_to_socket,
     game_players |-> game_players,
     disconnected_players |-> disconnected_players]

\* The ConnectionManager object after a method has run.
CommitConnections(c) ==
    /\ connections' = c.connections
    /\ player_to_socket' = c.player_to_socket
    /\ game_players' = c.game_players
    /\ disconnected_players' = c.disconnected_players

\* PlayerConnection(player_id, player_name, websocket).
NewConnection(player_id) ==
    [player_id |-> player_id, game_id |-> NoId, is_host |-> FALSE,
     is_spectator |-> FALSE]

\* ConnectionManager.connect; the record it returns is connections[websocket].
connect(c, websocket, player_id) ==
    LET parked == c.disconnected_players[player_id]
        connection == IF parked # NoConnection THEN parked
                      ELSE NewConnection(player_id)
    IN  [c EXCEPT !.disconnected_players[player_id] = NoConnection,
                  !.connections[websocket] = connection,
                  !.player_to_socket[player_id] = websocket]

\* ConnectionManager.disconnect; the record it returns is the one
\* connections held for websocket.
disconnect(c, websocket) ==
    LET connection == c.connections[websocket] IN
    IF connection = NoConnection THEN c
    ELSE [c EXCEPT !.connections[websocket] = NoConnection,
                   !.player_to_socket[connection.player_id] = None,
                   !.disconnected_players[connection.player_id] =
                       IF connection.game_id # NoId THEN connection ELSE @]

\* ConnectionManager.get_connection_by_player_id
get_connection_by_player_id(c, player_id) ==
    LET websocket == c.player_to_socket[player_id] IN
    IF websocket = None THEN NoConnection ELSE c.connections[websocket]

\* ConnectionManager.get_game_id
get_game_id(c, player_id) ==
    LET connection == get_connection_by_player_id(c, player_id) IN
    IF connection # NoConnection THEN connection.game_id
    ELSE c.disconnected_players[player_id].game_id

\* ConnectionManager.get_connected_players_in_game, as the player ids of
\* the records it returns.
get_connected_players_in_game(c) ==
    { p \in c.game_players :
        get_connection_by_player_id(c, p) # NoConnection }

\* ConnectionManager.join_game
connections_join_game(c, player_id, game_id, is_host, is_spectator) ==
    LET websocket == c.player_to_socket[player_id] IN
    IF websocket = None \/ c.connections[websocket] = NoConnection THEN c
    ELSE [c EXCEPT !.connections[websocket] =
                       [@ EXCEPT !.game_id = game_id, !.is_host = is_host,
                                 !.is_spectator = is_spectator],
                   !.game_players = @ \cup {player_id}]

\* ConnectionManager.leave_game
connections_leave_game(c, player_id) ==
    LET websocket == c.player_to_socket[player_id]
        parked == c.disconnected_players[player_id]
    IN  IF websocket = None
        THEN IF parked # NoConnection /\ parked.game_id # NoId
             THEN [c EXCEPT !.game_players = @ \ {player_id},
                            !.disconnected_players[player_id] = NoConnection]
             ELSE c
        ELSE IF \/ c.connections[websocket] = NoConnection
                \/ c.connections[websocket].game_id = NoId
             THEN c
             ELSE [c EXCEPT !.game_players = @ \ {player_id},
                            !.connections[websocket] =
                                [@ EXCEPT !.game_id = NoId,
                                          !.is_host = FALSE,
                                          !.is_spectator = FALSE]]

\* The connected members transfer_host may meet first with is_host set
\* (the order of a Python set), None if no connected member has it.
HostsMet(c) ==
    LET hosts == { p \in get_connected_players_in_game(c) :
                     get_connection_by_player_id(c, p).is_host }
    IN  IF hosts = {} THEN {None} ELSE hosts

\* ConnectionManager.transfer_host(Game_id, new_host_id) when old_host is
\* the member of HostsMet it meets first: the tables it leaves and the
\* value it returns.
transfer_host(c, new_host_id, old_host) ==
    IF new_host_id \notin c.game_players
    THEN [c |-> c, returned |-> FALSE]
    ELSE LET c1 == IF old_host = None THEN c
                   ELSE [c EXCEPT !.connections[c.player_to_socket[old_host]]
                                      .is_host = FALSE]
         IN  IF get_connection_by_player_id(c1, new_host_id) # NoConnection
             THEN [c |-> [c1 EXCEPT
                            !.connections[c1.player_to_socket[new_host_id]]
                                .is_host = TRUE],
                   returned |-> TRUE]
             ELSE [c |-> c1, returned |-> FALSE]

(***************************************************************************)
(* MonopolyServer (server/network/server.py).  A _handle_client coroutine  *)
(* runs per websocket; it gives up control only at an await of a socket    *)
(* send, so a step of the model runs one coroutine from the completion of  *)
(* the send it is suspended in to the next send it starts.                 *)
(*   pc "new"                  the websocket is not accepted yet           *)
(*      "closed"               its coroutine has returned                  *)
(*      "idle"                 in `async for raw_message in websocket`     *)
(*      "send_kicked"          _handle_kick_player, in send_to_player      *)
(*      "send_response"        _handle_message, in websocket.send          *)
(*      "send_broadcast"       _handle_message, in broadcast_to_game       *)
(*      "send_state"           _broadcast_state_to_game, in a send         *)
(*      "connect_broadcast"    _handle_connect, in broadcast_to_game       *)
(*      "connect_state"        _handle_connect, in the GAME_STATE send     *)
(*      "connect_ack"          _handle_connect, in the CONNECT send        *)
(*      "disconnect_broadcast" _handle_disconnect, in broadcast_to_game    *)
(***************************************************************************)
\* A message of shared/protocol.py.
Msg(type, data) == [type |-> type, request_id |-> NoId, data |-> data]

\* Game.get_state_for_player
get_state_for_player(g, player_id) ==
    [game_id |-> Game_id, phase |-> g.phase, turn_number |-> g.turn_number,
     current_player_id |-> current_player(g),
     is_your_turn |-> current_player(g) # None
                      /\ current_player(g) = player_id,
     last_dice_roll |-> g.last_dice_roll,
     players |-> LET listed == SelectSeq(g.player_order,
                                        LAMBDA pid : pid \in DOMAIN g.players)
                 IN  [i \in 1..Len(listed) |->
                         player_to_dict(listed[i], g.players[listed[i]])],
     board |-> [pos \in PropertyPositions |->
                   property_to_dict(pos, g.properties[pos])],
     houses_available |-> g.houses_available,
     hotels_available |-> g.hotels_available,
     winner_id |-> g.winner_id]

\* GameStateMessage.create(game.get_state_for_player(player_id))
GameStateMessage(g, player_id) ==
    Msg("GAME_STATE", get_state_for_player(g, player_id))

\* The orders in which a loop over the Python set S may visit it.
Orders(S) ==
    { s \in [1..Cardinality(S) -> S] : \A x \in S : \E i \in DOMAIN s : s[i] = x }

\* The websockets of the records get_connected_players_in_game returns,
\* without the record of player `exclude_player_id`.
ConnectedSockets(c, exclude_player_id) ==
    { c.player_to_socket[p] :
        p \in get_connected_players_in_game(c) \ {exclude_player_id} }

\* websocket.send raises: the client has closed the socket, or no
\* coroutine serves it any more.
SendFails(websocket) ==
    tasks[websocket].closing \/ tasks[websocket].pc = "closed"

\* What a coroutine has sent, with one more message delivered to `to`.
Sent(t, to, message) ==
    Append(t.sent, [to |-> to, player_id |-> connections[to].player_id,
                    message |-> message])

\* ConnectionManager._send_to_websocket from the coroutine in state t.
send_to_websocket(t, to, message) ==
    IF SendFails(to) THEN t ELSE [t EXCEPT !.sent = Sent(t, to, message)]

\* The coroutine has returned to `async for raw_message in websocket`.
Done(t) ==
    [t EXCEPT !.pc = "done", !.recipients = << >>, !.message = None,
              !.index = 0]

\* _broadcast_state_to_game from its start: the connected members are
\* listed, and the state of the first is built and handed to its send.
StartState(t, c, g) ==
    IF ~(t.result.broadcast_state /\ game_exists) THEN { Done(t) }
    ELSE IF ConnectedSockets(c, None) = {} THEN { Done(t) }
    ELSE { [t EXCEPT !.pc = "send_state", !.recipients = order,
                     !.message = GameStateMessage(
                         g, c.connections[order[1]].player_id)] :
             order \in Orders(ConnectedSockets(c, None)) }

\* The loop over result.broadcasts from its k-th entry: broadcast_to_game
\* lists the connected members other than the requester.
RECURSIVE StartBroadcast(_, _, _, _)
StartBroadcast(t, c, g, k) ==
    IF k > Len(t.result.broadcasts) THEN StartState(t, c, g)
    ELSE IF ConnectedSockets(c, t.player_id) = {}
         THEN StartBroadcast(t, c, g, k + 1)
         ELSE { [t EXCEPT !.pc = "send_broadcast", !.index = k,
                          !.recipients = order,
                          !.message = t.result.broadcasts[k]] :
                  order \in Orders(ConnectedSockets(c, t.player_id)) }

\* _handle_message after the response was sent: get_game_id names the
\* game the broadcasts go to.
AfterResponse(t, c, g) ==
    LET game_id == get_game_id(c, t.player_id) IN
    IF game_id = NoId THEN { Done([t EXCEPT !.game_id = NoId]) }
    ELSE StartBroadcast([t EXCEPT !.game_id = game_id], c, g, 1)

\* Back in `async for`: the locals of _handle_message are gone.
Idle(t) ==
    [ClosedTask EXCEPT !.pc = "idle", !.player_id = t.player_id,
                       !.closing = t.closing, !.requests = t.requests]

\* The coroutine of websocket moves to t; when it has finished the request
\* (pc "done") it is idle again, after the auto-save if the result asks
\* for one and the requester's game was found.
Resume(websocket, t) ==
    /\ tasks' = [tasks EXCEPT ![websocket] =
                    IF t.pc = "done" THEN Idle(t) ELSE t]
    /\ IF t.pc = "done" /\ t.result.should_save /\ t.game_id # NoId
          /\ game_exists
       THEN auto_save_if_needed(G)
       ELSE UNCHANGED last_saved_turn

\* ---- _handle_message ----
\* `await websocket.send(result.response.to_json())` completes or raises;
\* when it raises, _handle_message logs, fails to send the error and returns.
SendResponse(websocket) ==
    LET t == tasks[websocket] IN
    /\ t.pc = "send_response"
    /\ IF SendFails(websocket)
       THEN /\ tasks' = [tasks EXCEPT ![websocket] = Idle(t)]
            /\ UNCHANGED last_saved_turn
       ELSE \E t1 \in AfterResponse(
                        [t EXCEPT !.sent = Sent(t, websocket, t.result.response)],
                        C, G) :
               Resume(websocket, t1)
    /\ UNCHANGED << gameVars, game_exists, host_player_id, player_games,
                    connections, player_to_socket, game_players,
                    disconnected_players, manager >>

\* One send of broadcast_to_game completes or fails; after the last
\* recipient the next broadcast, or the state broadcast, begins.
SendBroadcast(websocket) ==
    LET t == tasks[websocket]
        t1 == [send_to_websocket(t, t.recipients[1], t.message)
                  EXCEPT !.recipients = Tail(t.recipients)]
    IN  /\ t.pc = "send_broadcast"
        /\ IF t1.recipients # << >>
           THEN /\ tasks' = [tasks EXCEPT ![websocket] = t1]
                /\ UNCHANGED last_saved_turn
           ELSE \E t2 \in StartBroadcast(t1, C, G, t.index + 1) :
                   Resume(websocket, t2)
        /\ UNCHANGED << gameVars, game_exists, host_player_id, player_games,
                        connections, player_to_socket, game_players,
                        disconnected_players, manager >>

\* One send of _broadcast_state_to_game completes or fails (the failure is
\* logged); the state for the next recipient is built from the game as it
\* is now.
SendState(websocket) ==
    LET t == tasks[websocket]
        t1 == [send_to_websocket(t, t.recipients[1], t.message)
                  EXCEPT !.recipients = Tail(t.recipients)]
    IN  /\ t.pc = "send_state"
        /\ IF t1.recipients # << >>
           THEN /\ tasks' = [tasks EXCEPT ![websocket] =
                               [t1 EXCEPT !.message = GameStateMessage(
                                   G, connections[t1.recipients[1]].player_id)]]
                /\ UNCHANGED last_saved_turn
           ELSE Resume(websocket, Done(t1))
        /\ UNCHANGED << gameVars, game_exists, host_player_id, player_games,
                        connections, player_to_socket, game_players,
                        disconnected_players, manager >>

\* ---- _handle_client, _handle_connect, _handle_disconnect ----
\* A websocket the server has not accepted yet; a websocket object serves
\* one connection and is never used again.
Fresh(websocket) == tasks[websocket].pc = "new"

\* The coroutine of a new websocket, about to register player_id.
NewTask(player_id) ==
    [ClosedTask EXCEPT !.pc = "idle", !.player_id = player_id]

\* _handle_connect once the CONNECT message is in, up to its first send:
\* ConnectionManager.connect, and for a player found in a game that
\* GameManager still holds the PLAYER_RECONNECTED broadcast to the others.
Connect(websocket, player_id) ==
    /\ Fresh(websocket)
    /\ LET c == connect(C, websocket, player_id)
           game_id == c.connections[websocket].game_id
           t == [NewTask(player_id) EXCEPT !.game_id = game_id]
           others == ConnectedSockets(c, player_id)
       IN  /\ CommitConnections(c)
           /\ IF game_id # NoId /\ game_exists
              THEN IF others # {}
                   THEN \E order \in Orders(others) :
                           tasks' = [tasks EXCEPT ![websocket] =
                              [t EXCEPT !.pc = "connect_broadcast",
                                        !.recipients = order,
                                        !.message = Msg("PLAYER_RECONNECTED",
                                                        player_id)]]
                   ELSE tasks' = [tasks EXCEPT ![websocket] =
                           [t EXCEPT !.pc = "connect_state",
                                     !.message =
                                         GameStateMessage(G, player_id)]]
              ELSE tasks' = [tasks EXCEPT ![websocket] =
                      [t EXCEPT !.pc = "connect_ack",
                                !.message = Msg("CONNECT", game_id)]]
    /\ UNCHANGED << gameVars, sessionVars, manager >>

\* One send of the PLAYER_RECONNECTED broadcast completes or fails; after
\* the last one the state for the reconnected player is built.
ConnectBroadcast(websocket) ==
    LET t == tasks[websocket]
        t1 == [send_to_websocket(t, t.recipients[1], t.message)
                  EXCEPT !.recipients = Tail(t.recipients)]
    IN  /\ t.pc = "connect_broadcast"
        /\ tasks' = [tasks EXCEPT ![websocket] =
              IF t1.recipients # << >> THEN t1
              ELSE [t1 EXCEPT !.pc = "connect_state",
                              !.message = GameStateMessage(G, t.player_id)]]
        /\ UNCHANGED << gameVars, sessionVars, connections, player_to_socket,
                        game_players, disconnected_players, manager >>

\* A send of _handle_connect to the new websocket raises: the error cannot
\* be sent either, _handle_connect returns None and _handle_client returns
\* without _handle_disconnect.
ConnectFailed(t) == ClosedTask

\* `await websocket.send(state_msg.to_json())` of _handle_connect.
ConnectState(websocket) ==
    LET t == tasks[websocket] IN
    /\ t.pc = "connect_state"
    /\ tasks' = [tasks EXCEPT ![websocket] =
          IF SendFails(websocket) THEN ConnectFailed(t)
          ELSE [t EXCEPT !.pc = "connect_ack",
                         !.sent = Sent(t, websocket, t.message),
                         !.message = Msg("CONNECT", t.game_id)]]
    /\ UNCHANGED << gameVars, sessionVars, connections, player_to_socket,
                    game_players, disconnected_players, manager >>

\* The CONNECT acknowledgment, with reconnected_to_game.
ConnectAck(websocket) ==
    LET t == tasks[websocket] IN
    /\ t.pc = "connect_ack"
    /\ tasks' = [tasks EXCEPT ![websocket] =
          IF SendFails(websocket) THEN ConnectFailed(t)
          ELSE Idle(t)]
    /\ UNCHANGED << gameVars, sessionVars, connections, player_to_socket,
                    game_players, disconnected_players, manager >>

\* The client closes its end of the websocket.
Close(websocket) ==
    /\ tasks[websocket].pc # "closed"
    /\ ~tasks[websocket].closing
    /\ tasks' = [tasks EXCEPT ![websocket].closing = TRUE]
    /\ UNCHANGED << gameVars, sessionVars, connections, player_to_socket,
                    game_players, disconnected_players, manager >>

\* The coroutine of a finished websocket ends, after the auto-save of
\* _handle_disconnect if the record was in a game.
Ended(websocket, t, saves) ==
    /\ tasks' = [tasks EXCEPT ![websocket] = ClosedTask]
    /\ IF saves /\ game_exists THEN auto_save_if_needed(G)
       ELSE UNCHANGED last_saved_turn

\* `async for` ends on the closed websocket and _handle_disconnect runs up
\* to its first send: ConnectionManager.disconnect, and for a record in a
\* game the PLAYER_DISCONNECTED broadcast.
Disconnect(websocket) ==
    LET t == tasks[websocket]
        connection == connections[websocket]
        c == disconnect(C, websocket)
        members == ConnectedSockets(c, None)
    IN  /\ t.pc = "idle"
        /\ t.closing
        /\ CommitConnections(c)
        /\ IF connection # NoConnection /\ connection.game_id # NoId
           THEN IF members # {}
                THEN /\ \E order \in Orders(members) :
                           tasks' = [tasks EXCEPT ![websocket] =
                              [t EXCEPT !.pc = "disconnect_broadcast",
                                        !.recipients = order, !.sent = << >>,
                                        !.message = Msg("PLAYER_DISCONNECTED",
                                                        t.player_id)]]
                     /\ UNCHANGED last_saved_turn
                ELSE Ended(websocket, [t EXCEPT !.sent = << >>], TRUE)
           ELSE Ended(websocket, [t EXCEPT !.sent = << >>], FALSE)
        /\ UNCHANGED << gameVars, game_exists, host_player_id, player_games,
                        manager >>

\* One send of the PLAYER_DISCONNECTED broadcast completes or fails.
DisconnectBroadcast(websocket) ==
    LET t == tasks[websocket]
        t1 == [send_to_websocket(t, t.recipients[1], t.message)
                  EXCEPT !.recipients = Tail(t.recipients)]
    IN  /\ t.pc = "disconnect_broadcast"
        /\ IF t1.recipients # << >>
           THEN /\ tasks' = [tasks EXCEPT ![websocket] = t1]
                /\ UNCHANGED last_saved_turn
           ELSE Ended(websocket, t1, TRUE)
        /\ UNCHANGED << gameVars, game_exists, host_player_id, player_games,
                        connections, player_to_socket, game_players,
                        disconnected_players, manager >>

\* ---- _handle_message: MessageHandler.handle_message and its handlers ----
\* The request ids clients put on their messages.
RequestIds == {"req"}

\* The websocket's coroutine is in `async for` and a message can arrive.
Receiving(websocket) ==
    /\ tasks[websocket].pc = "idle"
    /\ ~tasks[websocket].closing
    /\ tasks[websocket].requests < MaxRequests

\* HandleResult(response, broadcasts, broadcast_state, should_save), with
\* the request_id handle_message puts on the response.
HandleResult(request_id, response, broadcasts, broadcast_state, should_save) ==
    [response |-> [response EXCEPT !.request_id = request_id],
     request_id |-> request_id, broadcasts |-> broadcasts,
     broadcast_state |-> broadcast_state, should_save |-> should_save]

\* handle_message has returned `result` to _handle_message, which starts
\* to send the response; g is the game as the handler left it.
Respond(websocket, result, g) ==
    tasks' = [tasks EXCEPT ![websocket] =
                 [@ EXCEPT !.pc = "send_response", !.result = result,
                           !.game_id = NoId, !.index = 0,
                           !.recipients = << >>, !.message = None,
                           !.sent = << >>, !.after = g,
                           !.requests = @ + 1]]

\* CREATE_GAME, with settings that allow spectators.
HandleCreateGame(websocket, request_id) ==
    LET player_id == tasks[websocket].player_id IN
    /\ Receiving(websocket)
    /\ ~game_exists
    /\ player_id \notin player_games
    /\ \E decks \in ShuffledDecks :
          LET g == add_player(NewGame(decks), player_id) IN
          /\ Commit(g)
          /\ Respond(websocket,
                     HandleResult(request_id, GameStateMessage(g, player_id),
                                  << >>, FALSE, FALSE), g)
    /\ game_exists' = TRUE
    /\ host_player_id' = player_id
    /\ player_games' = player_games \cup {player_id}
    /\ last_saved_turn' = 0
    /\ CommitConnections(
          connections_join_game(C, player_id, Game_id, TRUE, FALSE))
    /\ UNCHANGED manager

\* GameManager.join_game(Game_id, player_id, as_spectator) succeeds.
games_join_game_ok(g, player_id, as_spectator) ==
    /\ game_exists
    /\ IF player_id \in player_games THEN player_id \in DOMAIN g.players
       ELSE \/ as_spectator
            \/ /\ g.phase = "WAITING"
               /\ Cardinality(DOMAIN g.players) < max_players

\* JOIN_GAME
HandleJoinGame(websocket, request_id, as_spectator) ==
    LET player_id == tasks[websocket].player_id
        joins_roster == player_id \notin player_games /\ ~as_spectator
        g == IF joins_roster THEN add_player(G, player_id) ELSE G
    IN  /\ Receiving(websocket)
        /\ games_join_game_ok(G, player_id, as_spectator)
        /\ Commit(g)
        /\ player_games' = player_games \cup {player_id}
        /\ CommitConnections(
              connections_join_game(C, player_id, Game_id, FALSE,
                                    as_spectator))
        /\ Respond(websocket,
                   HandleResult(request_id, GameStateMessage(g, player_id),
                                << Msg("PLAYER_JOINED", player_id) >>,
                                TRUE, FALSE), g)
        /\ UNCHANGED << game_exists, host_player_id, last_saved_turn,
                        manager >>

\* LEAVE_GAME
HandleLeaveGame(websocket, request_id) ==
    LET player_id == tasks[websocket].player_id
        g == IF player_id \in DOMAIN players
             THEN remove_player(G, player_id) ELSE G
    IN  /\ Receiving(websocket)
        /\ InGame(player_id)
        /\ player_id \in DOMAIN players
              => G.events["bankruptcy"] < MaxBankruptcies
        /\ Commit(g)
        /\ game_exists' = ~(g.phase = "WAITING" /\ DOMAIN g.players = {})
        /\ player_games' = player_games \ {player_id}
        /\ CommitConnections(connections_leave_game(C, player_id))
        /\ Respond(websocket,
                   HandleResult(request_id, Msg("LEAVE_GAME", TRUE),
                                << Msg("PLAYER_LEFT", player_id) >>,
                                TRUE, g.phase # "WAITING"), g)
        /\ UNCHANGED << host_player_id, last_saved_turn, manager >>

\* START_GAME
HandleStartGame(websocket, request_id) ==
    LET player_id == tasks[websocket].player_id IN
    /\ Receiving(websocket)
    /\ InGame(player_id)
    /\ player_id = host_player_id
    /\ phase = "WAITING"
    /\ Cardinality(DOMAIN players) >= min_players
    /\ \E order \in Shuffles(player_order) :
          LET g == start_game(G, order) IN
          /\ Commit(g)
          /\ last_saved_turn' = g.turn_number
          /\ Respond(websocket,
                     HandleResult(request_id, GameStateMessage(g, player_id),
                                  << Msg("GAME_STARTED", to_dict(g)) >>,
                                  TRUE, TRUE), g)
    /\ UNCHANGED << game_exists, host_player_id, player_games, connections,
                    player_to_socket, game_players, disconnected_players,
                    manager >>

\* KICK_PLAYER up to its send_to_player: with no socket mapped to the
\* target nothing is sent and the handler returns at once.
HandleKickPlayer(websocket, request_id, target_id) ==
    LET player_id == tasks[websocket].player_id
        g == remove_player(G, target_id)
        c == connections_leave_game(C, target_id)
        result == HandleResult(request_id, GameStateMessage(g, player_id),
                               << Msg("PLAYER_KICKED", target_id) >>,
                               TRUE, FALSE)
    IN  /\ Receiving(websocket)
        /\ InGame(player_id)
        /\ player_id = host_player_id
        /\ target_id # host_player_id
        /\ target_id \in player_games
        /\ target_id \in DOMAIN players
        /\ G.events["bankruptcy"] < MaxBankruptcies
        /\ Commit(g)
        /\ player_games' = player_games \ {target_id}
        /\ CommitConnections(c)
        /\ IF c.player_to_socket[target_id] = None
           THEN Respond(websocket, result, g)
           ELSE tasks' = [tasks EXCEPT ![websocket] =
                   [@ EXCEPT !.pc = "send_kicked", !.result = result,
                             !.game_id = NoId, !.index = 0,
                             !.recipients = << c.player_to_socket[target_id] >>,
                             !.message = Msg("ERROR", "KICKED"),
                             !.sent = << >>, !.after = g,
                           !.requests = @ + 1]]
        /\ UNCHANGED << game_exists, host_player_id, last_saved_turn,
                        manager >>

\* The send of the KICKED error completes or fails; the handler builds its
\* response from the game as it is now and returns.
SendKicked(websocket) ==
    LET t == tasks[websocket]
        t1 == send_to_websocket(t, t.recipients[1], t.message)
    IN  /\ t.pc = "send_kicked"
        /\ tasks' = [tasks EXCEPT ![websocket] =
              [t1 EXCEPT !.pc = "send_response", !.recipients = << >>,
                         !.message = None,
                         !.result.response =
                             [GameStateMessage(G, t.player_id)
                                 EXCEPT !.request_id = t.result.request_id]]]
        /\ UNCHANGED << gameVars, sessionVars, connections, player_to_socket,
                        game_players, disconnected_players, manager >>

\* TRANSFER_HOST
HandleTransferHost(websocket, request_id, new_host_id) ==
    LET player_id == tasks[websocket].player_id IN
    /\ Receiving(websocket)
    /\ InGame(player_id)
    /\ player_id = host_player_id
    /\ new_host_id \in DOMAIN players
    /\ new_host_id # host_player_id
    /\ host_player_id' = new_host_id
    /\ \E old_host \in HostsMet(C) :
          CommitConnections(transfer_host(C, new_host_id, old_host).c)
    /\ Respond(websocket,
               HandleResult(request_id, GameStateMessage(G, player_id),
                            << Msg("HOST_TRANSFERRED", new_host_id) >>,
                            TRUE, FALSE), G)
    /\ UNCHANGED << gameVars, game_exists, player_games, last_saved_turn,
                    manager >>

\* ROLL_DICE (the JAIL_STATUS broadcast that follows DICE_ROLLED when the
\* result message mentions the jail is not listed).
HandleRollDice(websocket, request_id) ==
    LET player_id == tasks[websocket].player_id IN
    /\ Receiving(websocket)
    /\ InGame(player_id)
    /\ player_id \in DOMAIN players
    /\ validate_roll_dice(G, player_id)
    /\ G.events["dice_rolled"] < MaxRolls
    /\ \E die1, die2 \in 1..MaxDie,
          rc \in ReshuffleChoices(chance, chance_discard),
          rcc \in ReshuffleChoices(community_chest, community_chest_discard) :
          LET g == roll_dice([G EXCEPT !.reshuffle_chance = rc,
                                       !.reshuffle_community_chest = rcc],
                             player_id, die1, die2)
          IN  /\ Commit(g)
              /\ Respond(websocket,
                         HandleResult(request_id,
                                      GameStateMessage(g, player_id),
                                      << Msg("DICE_ROLLED", << die1, die2 >>) >>,
                                      TRUE, FALSE), g)
    /\ UNCHANGED << sessionVars, connections, player_to_socket, game_players,
                    disconnected_players, manager >>

\* BUY_PROPERTY
HandleBuyProperty(websocket, request_id) ==
    LET player_id == tasks[websocket].player_id
        g == buy_property(G, player_id)
    IN  /\ Receiving(websocket)
        /\ InGame(player_id)
        /\ player_id \in DOMAIN players
        /\ validate_buy_property(G, player_id)
        /\ Commit(g)
        /\ Respond(websocket,
                   HandleResult(request_id, GameStateMessage(g, player_id),
                                << Msg("PROPERTY_BOUGHT", player_id) >>,
                                TRUE, FALSE), g)
        /\ UNCHANGED << sessionVars, connections, player_to_socket,
                        game_players, disconnected_players, manager >>

\* DECLINE_PROPERTY
HandleDeclineProperty(websocket, request_id) ==
    LET player_id == tasks[websocket].player_id
        g == decline_property(G, player_id)
    IN  /\ Receiving(websocket)
        /\ InGame(player_id)
        /\ player_id \in DOMAIN players
        /\ can_decline_property(G, player_id)
        /\ Commit(g)
        /\ Respond(websocket,
                   HandleResult(request_id, GameStateMessage(g, player_id),
                                << >>, TRUE, FALSE), g)
        /\ UNCHANGED << sessionVars, connections, player_to_socket,
                        game_players, disconnected_players, manager >>

\* END_TURN
HandleEndTurn(websocket, request_id) ==
    LET player_id == tasks[websocket].player_id
        g == end_turn(G, player_id)
    IN  /\ Receiving(websocket)
        /\ InGame(player_id)
        /\ player_id \in DOMAIN players
        /\ validate_end_turn(G, player_id)
        /\ Commit(g)
        /\ Respond(websocket,
                   HandleResult(request_id, GameStateMessage(g, player_id),
                                << IF g.phase = "GAME_OVER"
                                   THEN Msg("GAME_WON", g.winner_id)
                                   ELSE Msg("TURN_ENDED", player_id) >>,
                                TRUE, TRUE), g)
        /\ UNCHANGED << sessionVars, connections, player_to_socket,
                        game_players, disconnected_players, manager >>

\* The client that opens each websocket: the first client opens every
\* websocket but the last, which the second client opens.
ClientOf(websocket) == IF websocket < NumSockets THEN 1 ELSE 2

\* What the coroutine of a websocket may do next.
NextTask(websocket) ==
    \/ Connect(websocket, ClientOf(websocket))
    \/ ConnectBroadcast(websocket)
    \/ ConnectState(websocket)
    \/ ConnectAck(websocket)
    \/ Close(websocket)
    \/ Disconnect(websocket)
    \/ DisconnectBroadcast(websocket)
    \/ SendKicked(websocket)
    \/ SendResponse(websocket)
    \/ SendBroadcast(websocket)
    \/ SendState(websocket)

\* The lobby and host requests a connected client may send.
NextLobbyRequest(websocket) ==
    \E request_id \in RequestIds :
        \/ HandleCreateGame(websocket, request_id)
        \/ \E as_spectator \in BOOLEAN :
              HandleJoinGame(websocket, request_id, as_spectator)
        \/ HandleLeaveGame(websocket, request_id)
        \/ HandleStartGame(websocket, request_id)
        \/ \E target_id \in PlayerIds :
              \/ HandleKickPlayer(websocket, request_id, target_id)
              \/ HandleTransferHost(websocket, request_id, target_id)

NextServer ==
    \E websocket \in Sockets :
        NextTask(websocket) \/ NextLobbyRequest(websocket)

\* The server has just started: no game, no connection.
InitServer ==
    /\ \E decks \in ShuffledDecks : InitGame(NewGame(decks))
    /\ game_exists = FALSE
    /\ host_player_id = None
    /\ player_games = {}
    /\ last_saved_turn = 0
    /\ connections = [ws \in Sockets |-> NoConnection]
    /\ player_to_socket = [p \in PlayerIds |-> None]
    /\ game_players = {}
    /\ disconnected_players = [p \in PlayerIds |-> NoConnection]
    /\ tasks = [ws \in Sockets |-> [ClosedTask EXCEPT !.pc = "new"]]
    /\ NoManager

\* The server from its start: clients connect, meet in the lobby of a
\* game, disconnect and come back.
SpecServer == InitServer /\ [][NextServer]_vars

(***************************************************************************)
(* The server during play: a started two-player game with both players     *)
(* connected, the first client on websocket 1 and the second on the last   *)
(* websocket; the websockets between them have come and gone.              *)
(***************************************************************************)
\* The turn requests a connected client may send.
NextPlayRequest(websocket) ==
    \E request_id \in RequestIds :
        \/ HandleRollDice(websocket, request_id)
        \/ HandleBuyProperty(websocket, request_id)
        \/ HandleDeclineProperty(websocket, request_id)
        \/ HandleEndTurn(websocket, request_id)

\* What the coroutine of a websocket may do next: no websocket is opened
\* during these turns and no KICK_PLAYER is sent.
NextPlayTask(websocket) ==
    \/ Close(websocket)
    \/ Disconnect(websocket)
    \/ DisconnectBroadcast(websocket)
    \/ SendResponse(websocket)
    \/ SendBroadcast(websocket)
    \/ SendState(websocket)

NextPlayServer ==
    \E websocket \in Sockets :
        NextPlayTask(websocket) \/ NextPlayRequest(websocket)

\* The game as START_GAME left it.
JustStarted ==
    { start_game(add_player(add_player(NewGame(decks), 1), 2), order) :
        decks \in ShuffledDecks, order \in Shuffles(<< 1, 2 >>) }

\* The game as the first ROLL_DICE of the turn holder left it.
FirstRolled ==
    { roll_dice(g, current_player(g), die1, die2) :
        g \in JustStarted, die1 \in 1..MaxDie, die2 \in 1..MaxDie }

\* The game as the holder's DECLINE_PROPERTY after that roll left it.
FirstDeclined ==
    { decline_property(g, current_player(g)) :
        g \in { d \in FirstRolled :
                  can_decline_property(d, current_player(d)) } }

StartedGames == JustStarted \cup FirstRolled \cup FirstDeclined

\* Both players are connected and no request is being handled.
InitPlay ==
    /\ \E g \in StartedGames : InitGame(g)
    /\ game_exists = TRUE
    /\ host_player_id = 1
    /\ player_games = {1, 2}
    /\ last_saved_turn = 1
    /\ connections =
          [ws \in Sockets |->
              IF ws = 1
              THEN [NewConnection(1) EXCEPT !.game_id = Game_id,
                                            !.is_host = TRUE]
              ELSE IF ws = NumSockets
              THEN [NewConnection(2) EXCEPT !.game_id = Game_id]
              ELSE NoConnection]
    /\ player_to_socket = [p \in PlayerIds |-> IF p = 1 THEN 1 ELSE NumSockets]
    /\ game_players = {1, 2}
    /\ disconnected_players = [p \in PlayerIds |-> NoConnection]
    /\ tasks = [ws \in Sockets |->
                   IF ws = 1 THEN Idle(NewTask(1))
                   ELSE IF ws = NumSockets THEN Idle(NewTask(2))
                   ELSE ClosedTask]
    /\ NoManager

SpecPlay == InitPlay /\ [][NextPlayServer]_vars

(***************************************************************************)
(* GameManager with every game it holds (server/network/game_manager.py):  *)
(* `manager` is its _games and _player_games, and the latest snapshot of   *)
(* each game in its repository.  The methods are operators that return the *)
(* manager they leave and whether they succeeded.                          *)
(***************************************************************************)
\* The ids of the games created over time (Game.id, a fresh uuid each), in
\* the order they are drawn.
GameIdsDrawn == << "a", "b" >>
GameIds == { GameIdsDrawn[i] : i \in DOMAIN GameIdsDrawn }

\* The ids no game in memory or in the repository has.
UnusedIds(m) ==
    { i \in DOMAIN GameIdsDrawn :
        GameIdsDrawn[i] \notin DOMAIN m.games \cup DOMAIN m.snapshots }

\* GameSettings.allow_spectators of the games created: as in CREATE_GAME
\* above, the hosts allow spectators.
SpectatorSettings == {TRUE}

\* The longest Game.player_order the calls are followed to.
MaxOrder == 2

ManagedGame(game, host, allow_spectators, saved_turn) ==
    [game |-> game, host_player_id |-> host,
     allow_spectators |-> allow_spectators, last_saved_turn |-> saved_turn]

\* ManagedGame.is_started, ManagedGame.player_count
is_started(managed) == managed.game.phase # "WAITING"
player_count(managed) == Cardinality(DOMAIN managed.game.players)

\* del d[key]
Without(d, key) == [k \in DOMAIN d \ {key} |-> d[k]]

CallRefused(m) == [m |-> m, success |-> FALSE]
CallSucceeded(m) == [m |-> m, success |-> TRUE]

\* GameManager.create_game, the new Game having drawn game_id.
manager_create_game(m, game_id, host, allow_spectators, decks) ==
    IF host \in DOMAIN m.player_games THEN CallRefused(m)
    ELSE CallSucceeded(
           [m EXCEPT
              !.games = (game_id :> ManagedGame(add_player(NewGame(decks), host),
                                                host, allow_spectators, 0)) @@ @,
              !.player_games = (host :> game_id) @@ @])

\* GameManager.join_game
manager_join_game(m, game_id, player_id, as_spectator) ==
    IF game_id \notin DOMAIN m.games THEN CallRefused(m)
    ELSE LET managed == m.games[game_id] IN
         IF player_id \in DOMAIN m.player_games
         THEN IF /\ m.player_games[player_id] = game_id
                 /\ player_id \in DOMAIN managed.game.players
              THEN CallSucceeded(m) ELSE CallRefused(m)
         ELSE IF as_spectator
         THEN IF ~managed.allow_spectators THEN CallRefused(m)
              ELSE CallSucceeded([m EXCEPT !.player_games =
                                           (player_id :> game_id) @@ @])
         ELSE IF is_started(managed) THEN CallRefused(m)
         ELSE IF player_count(managed) >= max_players THEN CallRefused(m)
         ELSE CallSucceeded(
                [m EXCEPT !.games[game_id].game = add_player(@, player_id),
                          !.player_games = (player_id :> game_id) @@ @])

\* GameManager.leave_game
manager_leave_game(m, player_id) ==
    IF player_id \notin DOMAIN m.player_games THEN CallRefused(m)
    ELSE LET game_id == m.player_games[player_id]
             m1      == [m EXCEPT !.player_games = Without(@, player_id)]
         IN  IF game_id \notin DOMAIN m.games THEN CallRefused(m1)
             ELSE LET managed == m.games[game_id]
                      game == IF player_id \in DOMAIN managed.game.players
                              THEN remove_player(managed.game, player_id)
                              ELSE managed.game
                  IN  CallSucceeded(
                        IF game.phase = "WAITING" /\ DOMAIN game.players = {}
                        THEN [m1 EXCEPT !.games = Without(@, game_id)]
                        ELSE [m1 EXCEPT !.games[game_id].game = game])

\* GameManager.remove_player
manager_remove_player(m, game_id, player_id, remover_id) ==
    IF game_id \notin DOMAIN m.games THEN CallRefused(m)
    ELSE LET managed == m.games[game_id] IN
         IF remover_id # managed.host_player_id THEN CallRefused(m)
         ELSE IF player_id = managed.host_player_id THEN CallRefused(m)
         ELSE IF player_id \notin DOMAIN m.player_games THEN CallRefused(m)
         ELSE IF player_id \notin DOMAIN managed.game.players THEN CallRefused(m)
         ELSE CallSucceeded(
                [m EXCEPT !.games[game_id].game = remove_player(@, player_id),
                          !.player_games = Without(@, player_id)])

\* GameManager.save_game
manager_save_game(m, game_id) ==
    IF game_id \notin DOMAIN m.games THEN CallRefused(m)
    ELSE LET managed == m.games[game_id] IN
         CallSucceeded(
           [m EXCEPT
              !.snapshots =
                  (game_id :> [state |-> [to_dict(managed.game)
                                             EXCEPT !.id = game_id],
                               allow_spectators |-> managed.allow_spectators,
                               turn_number |-> managed.game.turn_number]) @@ @,
              !.games[game_id].last_saved_turn = managed.game.turn_number])

\* GameManager.start_game; order is what random.shuffle leaves.
manager_start_game(m, game_id, requester_id, order) ==
    IF game_id \notin DOMAIN m.games THEN CallRefused(m)
    ELSE LET managed == m.games[game_id] IN
         IF requester_id # managed.host_player_id THEN CallRefused(m)
         ELSE IF is_started(managed) THEN CallRefused(m)
         ELSE IF player_count(managed) < min_players THEN CallRefused(m)
         ELSE CallSucceeded(
                manager_save_game(
                  [m EXCEPT !.games[game_id].game = start_game(@, order)],
                  game_id).m)

\* GameManager.load_game
manager_load_game(m, game_id, decks) ==
    IF game_id \in DOMAIN m.games THEN CallSucceeded(m)
    ELSE IF game_id \notin DOMAIN m.snapshots THEN CallRefused(m)
    ELSE LET snapshot == m.snapshots[game_id]
             game     == from_dict(snapshot.state, decks).game
         IN  IF game.player_order = << >> THEN CallRefused(m)
             ELSE CallSucceeded(
                    [m EXCEPT
                       !.games = (game_id :> ManagedGame(
                                      game, game.player_order[1],
                                      snapshot.allow_spectators,
                                      snapshot.turn_number)) @@ @,
                       !.player_games =
                           [p \in DOMAIN game.players |-> game_id] @@ @])

\* The calls on the GameManager, refused ones included (save_game and
\* remove_player for the games in memory, load_game for the saved ones).
ManagerCreateGame ==
    \E host \in PlayerIds, allow_spectators \in SpectatorSettings,
       decks \in ShuffledDecks :
        /\ UnusedIds(manager) # {}
        /\ manager' = manager_create_game(
                          manager,
                          GameIdsDrawn[CHOOSE i \in UnusedIds(manager) :
                                          \A j \in UnusedIds(manager) : i <= j],
                          host, allow_spectators, decks).m
        /\ UNCHANGED << gameVars, sessionVars, netVars >>

\* Game.add_player appends to player_order even when the id is in it: the
\* call is followed while the list is shorter than MaxOrder.
ManagerJoinGame ==
    \E game_id \in GameIds, player_id \in PlayerIds, as_spectator \in BOOLEAN :
        /\ game_id \in DOMAIN manager.games
              => Len(manager.games[game_id].game.player_order) < MaxOrder
        /\ manager' = manager_join_game(manager, game_id, player_id,
                                        as_spectator).m
        /\ UNCHANGED << gameVars, sessionVars, netVars >>

\* A call that takes a player out of the roster of the started game
\* game_id logs a bankruptcy there.
RemovalLogged(game_id, player_id) ==
    /\ game_id \in DOMAIN manager.games
    /\ player_id \in DOMAIN manager.games[game_id].game.players
    /\ is_started(manager.games[game_id])
    => manager.games[game_id].game.events["bankruptcy"] < MaxBankruptcies

ManagerLeaveGame ==
    \E player_id \in PlayerIds :
        /\ player_id \in DOMAIN manager.player_games
              => RemovalLogged(manager.player_games[player_id], player_id)
        /\ manager' = manager_leave_game(manager, player_id).m
        /\ UNCHANGED << gameVars, sessionVars, netVars >>

ManagerRemovePlayer ==
    \E game_id \in DOMAIN manager.games, player_id \in PlayerIds,
       remover_id \in PlayerIds :
        /\ RemovalLogged(game_id, player_id)
        /\ manager' = manager_remove_player(manager, game_id, player_id,
                                            remover_id).m
        /\ UNCHANGED << gameVars, sessionVars, netVars >>

ManagerStartGame ==
    \E game_id \in DOMAIN manager.games, requester_id \in PlayerIds :
        \E order \in IF is_started(manager.games[game_id])
                      THEN { manager.games[game_id].game.player_order }
                      ELSE Shuffles(manager.games[game_id].game.player_order) :
            /\ manager' = manager_start_game(manager, game_id, requester_id,
                                             order).m
            /\ UNCHANGED << gameVars, sessionVars, netVars >>

ManagerSaveGame ==
    \E game_id \in DOMAIN manager.games :
        /\ manager' = manager_save_game(manager, game_id).m
        /\ UNCHANGED << gameVars, sessionVars, netVars >>

ManagerLoadGame ==
    \E game_id \in DOMAIN manager.snapshots, decks \in ShuffledDecks :
        /\ manager' = manager_load_game(manager, game_id, decks).m
        /\ UNCHANGED << gameVars, sessionVars, netVars >>

NextManager ==
    \/ ManagerCreateGame
    \/ ManagerJoinGame
    \/ ManagerLeaveGame
    \/ ManagerRemovePlayer
    \/ ManagerStartGame
    \/ ManagerSaveGame
    \/ ManagerLoadGame

\* A new GameManager over an empty repository; nobody is connected.
SpecManager == InitNew /\ [][NextManager]_vars

(***************************************************************************)
(* Properties.                                                             *)
(***************************************************************************)
\* The turn holder, and whether a player is still in play.
Holder == current_player(G)
InPlay(p) == p \in DOMAIN players /\ players[p].state # "BANKRUPT"

\* The houses and the hotels standing on the board.
HousesOnBoard ==
    SumOver(PropertyPositions, [pos \in PropertyPositions |->
                                   properties[pos].houses])
HotelsOnBoard ==
    Cardinality({pos \in PropertyPositions : properties[pos].has_hotel})

\* C1: every property whose owner_id is set is owned by a player of the
\* roster who is not bankrupt, whatever creditor_id the bankruptcies named.
C1_OwnerIsInPlay ==
    \A pos \in PropertyPositions :
        is_owned(properties[pos]) => InPlay(properties[pos].owner_id)

\* C2: the houses on the board never exceed TOTAL_HOUSES and the hotels
\* never exceed TOTAL_HOTELS; houses_available and hotels_available are
\* never negative, selling a hotel included.
C2_BankNeverOverdrawn ==
    /\ HousesOnBoard <= TOTAL_HOUSES
    /\ HotelsOnBoard <= TOTAL_HOTELS
    /\ houses_available >= 0
    /\ hotels_available >= 0

\* C3: while the phase is neither WAITING nor GAME_OVER there is a turn
\* holder and that player is not bankrupt, also after the turn holder has
\* left or been kicked.
C3_HolderInPlay ==
    phase \notin {"WAITING", "GAME_OVER"} => Holder # None /\ InPlay(Holder)

\* C4: a step taken while the game is WAITING either is a successful
\* start_game requested by the host with at least 2 players in the roster,
\* or changes neither the phase nor the turn counter.
C4_WaitingLeftOnlyByStart ==
    [][phase = "WAITING" =>
          \/ phase' = "WAITING" /\ turn_number' = turn_number
          \/ /\ InGame(host_player_id)
             /\ Cardinality(DOMAIN players) >= min_players
             /\ phase' = "PRE_ROLL" /\ turn_number' = 1
             /\ events' = events
             /\ players' = players]_vars

\* C5: once the phase is GAME_OVER no engine call changes the phase, the
\* winner, the turn counter, a player's money or state, or a property.
\* (The engine calls are the steps that leave the session's maps alone.)
C5_GameOverIsFinal ==
    [][(phase = "GAME_OVER" /\ UNCHANGED sessionVars) =>
          /\ phase' = "GAME_OVER"
          /\ winner_id' = winner_id
          /\ turn_number' = turn_number
          /\ properties' = properties
          /\ \A p \in DOMAIN players :
                /\ players'[p].money = players[p].money
                /\ players'[p].state = players[p].state]_vars

\* A request that takes the game out of PAYING_RENT without a bankruptcy.
SettleStep ==
    /\ NextPlay
    /\ phase' # "PAYING_RENT"

\* C6: a turn holder blocked in PAYING_RENT who has raised at least the owed
\* amount by selling buildings or mortgaging can get out of PAYING_RENT
\* without going bankrupt.
C6_DebtCanBeSettled ==
    ( /\ phase = "PAYING_RENT"
      /\ Holder # None /\ InPlay(Holder)
      /\ events["building_sold"] + events["property_mortgaged"] > 0
      /\ players[Holder].money >= owed )
    => ENABLED SettleStep

\* C7: no player's money is ever negative.
C7_MoneyNeverNegative == \A p \in DOMAIN players : players[p].money >= 0

\* C7, its case: a payment was due that the turn holder could not afford,
\* and nothing was taken.
C7_PaymentRefused ==
    /\ phase = "PAYING_RENT"
    /\ Holder # None
    /\ owed > players[Holder].money
    /\ players[Holder].money >= 0

\* C8: no started game that is not over has fewer than 2 players in play.
C8_OverWhenOneLeft ==
    phase \in {"PRE_ROLL", "POST_ROLL", "PROPERTY_DECISION", "PAYING_RENT"}
        => Cardinality(active_players(G)) >= 2

\* C9: in GAME_OVER at most one player is in play and the winner, if set, is
\* in play; the winner is never set in another phase.
C9_OverOnlyWhenReallyOver ==
    /\ phase = "GAME_OVER" =>
          /\ Cardinality(active_players(G)) <= 1
          /\ winner_id # None => InPlay(winner_id)
    /\ phase # "GAME_OVER" => winner_id = None

\* C10: after three doubles have sent the turn holder to jail, and until the
\* turn holder changes, no roll of that player succeeds and the player stays
\* on the jail square.
C10_NoMoveAfterThreeDoubles ==
    [][( /\ Holder # None
         /\ last_three_doubles = << Holder, turn_number >>
         /\ turn_number' = turn_number
         /\ current_player_index' = current_player_index
         /\ player_order' = player_order )
       => /\ events'["dice_rolled"] = events["dice_rolled"]
          /\ players'[Holder].position = JAIL_POSITION]_vars

\* C11: a roll succeeds only for the turn holder and only in PRE_ROLL or
\* POST_ROLL, and with it a player has rolled at most once out of jail since
\* the last successful end_turn.
C11_OneRollPerTurn ==
    [][\A p \in PlayerIds :
          RollDice(p) =>
              /\ p = Holder
              /\ phase \in {"PRE_ROLL", "POST_ROLL"}
              /\ free_rolls'[p] <= 1]_vars

\* C11, its case: the turn holder has rolled out of jail, has not ended the
\* turn, and a further roll is refused.
C11_SecondRollRefused ==
    /\ Holder # None
    /\ phase = "POST_ROLL"
    /\ players[Holder].state = "ACTIVE"
    /\ free_rolls[Holder] = 1
    /\ ~ validate_roll_dice(G, Holder)

\* The results of every engine call a client can cause in the current state,
\* with a deck that runs out reshuffled in the order of its discard pile.
EngineCalls ==
    LET g == [G EXCEPT !.reshuffle_chance = chance_discard,
                       !.reshuffle_community_chest = community_chest_discard]
        Callers == PlayerIds \cup {UnknownId}
    IN  {call_roll_dice(g, pid, die1, die2) :
             pid \in Callers, die1 \in 1..MaxDie, die2 \in 1..MaxDie}
        \cup {call_buy_property(g, pid) : pid \in Callers}
        \cup {call_decline_property(g, pid) : pid \in Callers}
        \cup {call_build_house(g, pid, pos) :
                  pid \in Callers, pos \in RequestPositions}
        \cup {call_build_hotel(g, pid, pos) :
                  pid \in Callers, pos \in RequestPositions}
        \cup {call_sell_building(g, pid, pos) :
                  pid \in Callers, pos \in RequestPositions}
        \cup {call_mortgage_property(g, pid, pos) :
                  pid \in Callers, pos \in RequestPositions}
        \cup {call_unmortgage_property(g, pid, pos) :
                  pid \in Callers, pos \in RequestPositions}
        \cup {call_pay_bail(g, pid) : pid \in Callers}
        \cup {call_use_jail_card(g, pid) : pid \in Callers}
        \cup {call_end_turn(g, pid) : pid \in Callers}
        \cup {call_add_player(g, pid) : pid \in Callers}
        \cup {call_start_game(g, g.player_order)}

\* C12: an engine call that returns success = False leaves the whole game
\* state as it was before the call.
C12_RefusedCallChangesNothing ==
    \A r \in EngineCalls :
        ~ r.success =>
            r.game = [G EXCEPT !.reshuffle_chance = chance_discard,
                               !.reshuffle_community_chest =
                                   community_chest_discard]

\* C12, its case: in a started game a build_house that the validation
\* refuses (the bank has houses, the caller owns the property) and a roll by
\* a player who does not hold the turn.
C12_CallsRefused ==
    /\ phase = "POST_ROLL"
    /\ Holder # None
    /\ \E pos \in RequestPositions :
          /\ properties[pos].owner_id = Holder
          /\ houses_available > 0
          /\ ~ call_build_house(G, Holder, pos).success
    /\ \E pid \in PlayerIds \ {Holder} :
          pid \in DOMAIN players /\ ~ call_roll_dice(G, pid, 1, 1).success

\* C13: once the game has left WAITING no request changes player_order or
\* the set of player ids in the roster.
C13_OrderIsFixed ==
    [][phase # "WAITING" =>
          /\ player_order' = player_order
          /\ DOMAIN players' = DOMAIN players]_vars

\* C13, its case: a player has left the started game and is still in the
\* roster and in player_order, as BANKRUPT.
C13_LeaverStaysInRoster ==
    /\ phase # "WAITING"
    /\ \E p \in DOMAIN players :
          /\ p \notin player_games
          /\ players[p].state = "BANKRUPT"
          /\ \E i \in DOMAIN player_order : player_order[i] = p

\* C14: in every reachable state the development levels (0-4 houses, hotel 5)
\* of any two properties of one colour group differ by at most 1.
C14_EvenBuilding ==
    \A pos \in PropertyPositions :
        \A q \in get_group_properties(BOARD_SPACES[pos].group) :
            development_level(properties[pos])
                <= development_level(properties[q]) + 1

\* A house has been built, one property of a group is one level above a
\* sibling, and its owner, who holds the turn, can pay for a house the bank
\* has: build_house is refused on the higher property and accepted on the
\* lower one.
C14_BuildRefusedOnHigher ==
    /\ events["house_built"] > 0
    /\ houses_available > 0
    /\ \E pos \in PropertyPositions :
          \E q \in get_group_properties(BOARD_SPACES[pos].group) :
              /\ development_level(properties[pos])
                     = development_level(properties[q]) + 1
              /\ properties[pos].houses < MAX_HOUSES_PER_PROPERTY
              /\ properties[pos].owner_id = Holder
              /\ ~validate_build_house(G, Holder, pos)
              /\ validate_build_house(G, Holder, q)

\* C15: buy_property succeeds only for the turn holder, in PROPERTY_DECISION,
\* standing on an unowned purchasable property whose cost they can afford; on
\* success the caller pays exactly the cost, becomes the owner, has the
\* position among their properties and the phase is POST_ROLL; for a property
\* that is owned no buy_property of any player succeeds.
C15_BuyProperty ==
    \A pid \in PlayerIds \cup {UnknownId} :
        LET r == call_buy_property(G, pid) IN
        /\ r.success =>
              LET pos  == players[pid].position
                  cost == BOARD_SPACES[pos].cost
              IN  /\ pid = Holder
                  /\ phase = "PROPERTY_DECISION"
                  /\ pos \in PropertyPositions
                  /\ properties[pos].owner_id = None
                  /\ players[pid].money >= cost
                  /\ r.game.players[pid].money = players[pid].money - cost
                  /\ r.game.properties[pos].owner_id = pid
                  /\ r.game.players[pid].properties
                         = players[pid].properties \cup {pos}
                  /\ r.game.phase = "POST_ROLL"
        /\ ( /\ pid \in DOMAIN players
             /\ players[pid].position \in PropertyPositions
             /\ is_owned(properties[players[pid].position]) ) => ~r.success

\* The turn holder has just bought the property they stand on out of the
\* starting money, and a second buy_property of theirs is refused.
C15_BoughtFromStartingMoney ==
    /\ Holder # None
    /\ phase = "POST_ROLL"
    /\ players[Holder].position \in PropertyPositions
    /\ LET pos == players[Holder].position IN
          /\ properties[pos].owner_id = Holder
          /\ players[Holder].properties = {pos}
          /\ players[Holder].money
                 = STARTING_MONEY - BOARD_SPACES[pos].cost
    /\ ~call_buy_property(G, Holder).success

\* C16: mortgage_property succeeds only for the owner of an unmortgaged
\* property without houses or hotel, credits exactly cost // 2 and sets
\* is_mortgaged; unmortgage_property succeeds only for the owner of a
\* mortgaged property who can afford int((cost // 2) * 1.1), debits exactly
\* that and clears the flag; no property is mortgaged and carries a building.
C16_MortgageRules ==
    /\ \A pid \in PlayerIds \cup {UnknownId}, pos \in RequestPositions :
          LET m    == call_mortgage_property(G, pid, pos)
              u    == call_unmortgage_property(G, pid, pos)
              cost == BOARD_SPACES[pos].cost
              back == ((cost \div 2) * 11) \div 10
          IN  /\ m.success =>
                    /\ properties[pos].owner_id = pid
                    /\ ~properties[pos].is_mortgaged
                    /\ properties[pos].houses = 0
                    /\ ~properties[pos].has_hotel
                    /\ m.game.players[pid].money
                           = players[pid].money + cost \div 2
                    /\ m.game.properties[pos]
                           = [properties[pos] EXCEPT !.is_mortgaged = TRUE]
              /\ u.success =>
                    /\ properties[pos].owner_id = pid
                    /\ properties[pos].is_mortgaged
                    /\ players[pid].money >= back
                    /\ u.game.players[pid].money = players[pid].money - back
                    /\ u.game.properties[pos]
                           = [properties[pos] EXCEPT !.is_mortgaged = FALSE]
    /\ \A pos \in PropertyPositions :
          properties[pos].is_mortgaged =>
              properties[pos].houses = 0 /\ ~properties[pos].has_hotel

\* A property has been mortgaged, its owner can unmortgage it and cannot
\* mortgage it again, and the mortgage of a property with buildings is
\* refused to its owner.
C16_MortgagedAndRefused ==
    /\ events["property_mortgaged"] > 0
    /\ \E pos \in RequestPositions :
          /\ properties[pos].is_mortgaged
          /\ properties[pos].owner_id \in DOMAIN players
          /\ call_unmortgage_property(G, properties[pos].owner_id, pos).success
          /\ ~call_mortgage_property(G, properties[pos].owner_id, pos).success
    /\ \E q \in RequestPositions :
          /\ development_level(properties[q]) > 0
          /\ properties[q].owner_id \in DOMAIN players
          /\ ~call_mortgage_property(G, properties[q].owner_id, q).success

\* C17: declare_bankruptcy(p, c) with c a different, non-bankrupt player
\* gives c the money and the jail cards of p on top of c's own, makes c the
\* owner of every property of p with houses, hotel and mortgage flag as they
\* were, leaves p BANKRUPT and owning nothing, and leaves the total cash of
\* all players unchanged.
C17_CreditorTakesAll ==
    [][\A p \in PlayerIds, c \in PlayerIds :
          ( /\ DeclareBankruptcy(p, c)
            /\ c # p
            /\ c \in DOMAIN players
            /\ players[p].state # "BANKRUPT"
            /\ players[c].state # "BANKRUPT" )
          =>
          /\ players'[c].money = players[c].money + players[p].money
          /\ players'[c].jail_cards
                 = players[c].jail_cards + players[p].jail_cards
          /\ \A pos \in PropertyPositions :
                properties[pos].owner_id = p =>
                    properties'[pos]
                        = [properties[pos] EXCEPT !.owner_id = c]
          /\ players'[p].state = "BANKRUPT"
          /\ players'[p].properties = {}
          /\ \A pos \in PropertyPositions : properties'[pos].owner_id # p
          /\ SumOver(DOMAIN players',
                     [q \in DOMAIN players' |-> players'[q].money])
                 = SumOver(DOMAIN players,
                           [q \in DOMAIN players |-> players[q].money])
      ]_vars

\* C18: declare_bankruptcy(p) without a creditor leaves every property p
\* owned unowned, unmortgaged and without buildings, adds to houses_available
\* and hotels_available exactly the houses and hotels that stood on them and
\* leaves p BANKRUPT; if p held the turn and at least two players are left
\* the turn passes to the next non-bankrupt player in player_order, and if
\* exactly one player is left the phase becomes GAME_OVER.
C18_EverythingBackToBank ==
    [][\A p \in PlayerIds, c \in {None, UnknownId} :
          DeclareBankruptcy(p, c)
          =>
          LET held == {pos \in PropertyPositions :
                          properties[pos].owner_id = p}
              left == {q \in DOMAIN players' : players'[q].state # "BANKRUPT"}
              n    == Len(player_order)
              At(k) == player_order[((current_player_index + k) % n) + 1]
              after == {k \in 1..(n - 1) : At(k) \in left}
          IN  /\ \A pos \in held : properties'[pos] = NewProperty
              /\ houses_available'
                     = houses_available
                       + SumOver(held, [pos \in held |->
                                           properties[pos].houses])
              /\ hotels_available'
                     = hotels_available
                       + Cardinality({pos \in held :
                                         properties[pos].has_hotel})
              /\ players'[p].state = "BANKRUPT"
              /\ (Holder = p /\ Cardinality(left) >= 2) =>
                     current_player(G)' =
                         At(CHOOSE k \in after : \A j \in after : k <= j)
              /\ Cardinality(left) = 1 => phase' = "GAME_OVER"
      ]_vars

\* C19: a successful end_turn that grants no extra roll makes the first
\* non-bankrupt player after the caller in player_order, cyclically, the turn
\* holder, adds exactly 1 to turn_number, sets the phase to PRE_ROLL and
\* clears the new holder's has_rolled; it never makes a BANKRUPT player the
\* holder while two non-bankrupt players remain; end_turn is refused to
\* anyone but the turn holder and in PRE_ROLL, PROPERTY_DECISION and
\* PAYING_RENT.
C19_EndTurnAdvances ==
    [][/\ \A pid \in PlayerIds \cup {UnknownId} :
             call_end_turn(G, pid).success =>
                 /\ pid = Holder
                 /\ phase \notin {"PRE_ROLL", "PROPERTY_DECISION",
                                   "PAYING_RENT"}
       /\ \A p \in PlayerIds :
             ( /\ EndTurn(p)
               /\ ~( /\ last_dice_roll # NoRoll
                     /\ last_dice_roll[1] = last_dice_roll[2]
                     /\ players[p].consecutive_doubles < 3
                     /\ players[p].state # "IN_JAIL" ) )
             =>
             LET n     == Len(player_order)
                 At(k) == player_order[((current_player_index + k) % n) + 1]
                 after == {k \in 1..n : InPlay(At(k))}
                 next  == At(CHOOSE k \in after : \A j \in after : k <= j)
             IN  /\ after # {} => current_player(G)' = next
                 /\ turn_number' = turn_number + 1
                 /\ phase' = "PRE_ROLL"
                 /\ current_player(G)' # None
                 /\ ~players'[current_player(G)'].has_rolled
                 /\ Cardinality(active_players(G)) >= 2 =>
                        players'[current_player(G)'].state # "BANKRUPT"
      ]_vars

\* C20: when the turn holder's last roll in this turn was a double, they are
\* not in jail and have fewer than 3 consecutive doubles, end_turn keeps them
\* as turn holder, leaves turn_number unchanged, sets the phase to PRE_ROLL
\* and lets them roll once more; an extra roll is granted only for a double
\* the player rolled out of jail in the current turn; has_rolled and
\* consecutive_doubles of the player who receives the turn are reset when the
\* turn advances.
C20_ExtraRollOnlyForOwnDouble ==
    [][/\ \A p \in PlayerIds :
             EndTurn(p) =>
                 LET own_double ==
                         /\ last_dice_roll # NoRoll
                         /\ last_dice_roll[1] = last_dice_roll[2]
                         /\ last_roll_by = << p, FALSE >>
                     extra ==
                         /\ current_player(G)' = p
                         /\ turn_number' = turn_number
                         /\ phase' = "PRE_ROLL"
                         /\ ~players'[p].has_rolled
                         /\ free_rolls'[p] = 0
                 IN  /\ ( /\ own_double
                          /\ players[p].state # "IN_JAIL"
                          /\ players[p].consecutive_doubles < 3 ) => extra
                     /\ ( /\ current_player(G)' = p
                          /\ turn_number' = turn_number
                          /\ phase' = "PRE_ROLL" ) => own_double
       /\ ( /\ turn_number' = turn_number + 1
            /\ current_player(G)' # None )
          => /\ ~players'[current_player(G)'].has_rolled
             /\ players'[current_player(G)'].consecutive_doubles = 0
      ]_vars

\* C21: a roll in jail with doubles releases the player and moves them; a
\* failed roll in the third jailed turn takes the bail and moves the player
\* who can afford it and otherwise blocks the turn in PAYING_RENT; a failed
\* roll before the third jailed turn leaves the player in jail on position 10
\* with the phase POST_ROLL; jail_turns never exceeds 3.
C21_OutOfJailByThirdTurn ==
    [][/\ \A p \in PlayerIds :
             (RollDice(p) /\ players[p].state = "IN_JAIL") =>
                 LET die1  == last_dice_roll'[1]
                     die2  == last_dice_roll'[2]
                     moved == /\ players'[p].state = "ACTIVE"
                              /\ players'[p].position
                                     = JAIL_POSITION + die1 + die2
                     third == players[p].jail_turns = MAX_JAIL_TURNS
                 IN  /\ die1 = die2 =>
                            moved /\ players'[p].money <= players[p].money
                     /\ (die1 # die2 /\ third
                            /\ players[p].money >= JAIL_BAIL) =>
                            /\ moved
                            /\ players'[p].money
                                   <= players[p].money - JAIL_BAIL
                     /\ (die1 # die2 /\ third
                            /\ players[p].money < JAIL_BAIL) =>
                            /\ phase' = "PAYING_RENT"
                            /\ players'[p] =
                                   [players[p] EXCEPT !.has_rolled = TRUE]
                     /\ (die1 # die2 /\ ~third) =>
                            /\ players'[p] =
                                   [players[p] EXCEPT !.has_rolled = TRUE]
                            /\ players[p].position = JAIL_POSITION
                            /\ phase' = "POST_ROLL"
       /\ \A q \in DOMAIN players' :
             players'[q].jail_turns <= MAX_JAIL_TURNS
      ]_vars

\* The turn holder has failed the roll of the third jailed turn without the
\* money for the bail and is blocked, while the other player has been taken
\* out of jail.
C21_ThirdTurnBlocked ==
    /\ Holder # None
    /\ players[Holder].state = "IN_JAIL"
    /\ players[Holder].jail_turns = MAX_JAIL_TURNS
    /\ players[Holder].has_rolled
    /\ phase = "PAYING_RENT"
    /\ owed = JAIL_BAIL
    /\ \E q \in DOMAIN players :
          /\ players[q].state = "ACTIVE"
          /\ players[q].position # JAIL_POSITION

\* C22: for every reachable game state, Game.from_dict(g.to_dict()) has the
\* same id, phase, turn_number, current_player_index, player_order and
\* winner_id, the same money, position, state, jail_turns, jail_cards and
\* property set for every player, the same owner, houses, hotel and mortgage
\* flag for every property, and the same houses_available and
\* hotels_available.
C22_RoundTrip ==
    \A decks \in ShuffledDecks :
        LET r == from_dict(to_dict(G), decks) IN
        /\ r.id = Game_id
        /\ r.game.phase = phase
        /\ r.game.turn_number = turn_number
        /\ r.game.current_player_index = current_player_index
        /\ r.game.player_order = player_order
        /\ r.game.winner_id = winner_id
        /\ DOMAIN r.game.players = DOMAIN players
        /\ \A p \in DOMAIN players :
              /\ r.game.players[p].money = players[p].money
              /\ r.game.players[p].position = players[p].position
              /\ r.game.players[p].state = players[p].state
              /\ r.game.players[p].jail_turns = players[p].jail_turns
              /\ r.game.players[p].jail_cards = players[p].jail_cards
              /\ r.game.players[p].properties = players[p].properties
        /\ \A pos \in PropertyPositions :
              r.game.properties[pos] = properties[pos]
        /\ r.game.houses_available = houses_available
        /\ r.game.hotels_available = hotels_available

\* A player who has rolled, holds a Get Out of Jail Free card and owns a
\* property: the restored game has the player's card and property, and not
\* the has_rolled flag.
C22_RestoredWithoutTurnFlags ==
    \E p \in DOMAIN players :
        /\ players[p].has_rolled
        /\ players[p].jail_cards > 0
        /\ players[p].properties # {}
        /\ \A decks \in ShuffledDecks :
              LET r == from_dict(to_dict(G), decks) IN
              /\ ~r.game.players[p].has_rolled
              /\ r.game.players[p].jail_cards = players[p].jail_cards
              /\ r.game.players[p].properties = players[p].properties

\* C23: a player has at most one active connection: whatever the order of
\* the connects and disconnects, at most one websocket of the connection
\* table belongs to each player id, and player_to_socket maps the player of
\* every registered websocket to that websocket.
C23_OneActiveConnection ==
    \A p \in PlayerIds :
        /\ Cardinality({ ws \in Sockets : connections[ws].player_id = p }) <= 1
        /\ \A ws \in Sockets :
              connections[ws].player_id = p => player_to_socket[p] = ws

\* The request of the step is LEAVE_GAME from player p, or KICK_PLAYER
\* naming p.
LeftOrKicked(p) ==
    \E ws \in Sockets, request_id \in RequestIds :
        \/ tasks[ws].player_id = p /\ HandleLeaveGame(ws, request_id)
        \/ HandleKickPlayer(ws, request_id, p)

\* C24: a player stays in the roster, in the member set of the
\* ConnectionManager and in the player-to-game map of the GameManager until he
\* leaves or is kicked, however often his sockets come and go; a CONNECT of
\* a member of the game gives his new connection the game_id (and, from the
\* parked record, the is_host and is_spectator values), which the CONNECT
\* reply reports as reconnected_to_game, and the GAME_STATE prepared for him
\* is his view of the game, which no connect, close or disconnect changes.
C24_MembershipSurvivesReconnect ==
    [][ /\ \A p \in PlayerIds :
              (\/ p \in player_games /\ p \notin player_games'
               \/ p \in game_players /\ p \notin game_players'
               \/ p \in DOMAIN players /\ p \notin DOMAIN players')
              => LeftOrKicked(p)
        /\ \A ws \in Sockets :
              /\ (\/ Connect(ws, ClientOf(ws)) \/ Close(ws) \/ Disconnect(ws)
                  \/ DisconnectBroadcast(ws) \/ ConnectBroadcast(ws)
                  \/ ConnectState(ws) \/ ConnectAck(ws))
                 => UNCHANGED gameVars
              /\ (Connect(ws, ClientOf(ws)) /\ ClientOf(ws) \in game_players
                  /\ game_exists)
                 => LET p == ClientOf(ws)
                        parked == disconnected_players[p]
                    IN  /\ connections'[ws].game_id = Game_id
                        /\ tasks'[ws].game_id = Game_id
                        /\ parked # NoConnection
                              => /\ connections'[ws].is_host = parked.is_host
                                 /\ connections'[ws].is_spectator
                                       = parked.is_spectator
              /\ (tasks[ws].pc # "connect_state"
                  /\ tasks'[ws].pc = "connect_state")
                 => tasks'[ws].message
                       = GameStateMessage(G, tasks'[ws].player_id)
              /\ ConnectAck(ws) /\ tasks'[ws].pc = "idle"
                 => tasks[ws].message = Msg("CONNECT", tasks[ws].game_id)
      ]_vars

\* The record the ConnectionManager c keeps of member p of the game: that of
\* his socket, or the parked one.
MemberRecord(c, p) ==
    IF get_connection_by_player_id(c, p) # NoConnection
    THEN get_connection_by_player_id(c, p)
    ELSE c.disconnected_players[p]

\* The members of the game whose record has is_host set.
HostRecords(c) == { p \in c.game_players : MemberRecord(c, p).is_host }

\* C25: host transfer is atomic: when transfer_host returns True exactly one
\* member record of the game, connected or parked, has is_host set, that of
\* the new host; when it returns False no is_host flag of any record has
\* changed.
C25_HostTransferAtomic ==
    [][ \A ws \in Sockets, request_id \in RequestIds, new_host_id \in PlayerIds :
          HandleTransferHost(ws, request_id, new_host_id)
          => \A old_host \in HostsMet(C) :
                LET r == transfer_host(C, new_host_id, old_host) IN
                r.c = C'
                => IF r.returned
                   THEN HostRecords(r.c) = {new_host_id}
                   ELSE /\ \A w \in Sockets :
                              r.c.connections[w].is_host
                                 = connections[w].is_host
                        /\ \A p \in PlayerIds :
                              r.c.disconnected_players[p].is_host
                                 = disconnected_players[p].is_host
      ]_vars

\* C26: a player is in at most one game.  Every player who is a roster
\* member, not bankrupt, of a game the GameManager holds is mapped by
\* _player_games to that game, hence to no other game, after any sequence
\* of create_game, join_game, leave_game, remove_player, start_game,
\* save_game and load_game calls.
C26_OneGamePerPlayer ==
    \A game_id \in DOMAIN manager.games, p \in PlayerIds :
        /\ p \in DOMAIN manager.games[game_id].game.players
        /\ manager.games[game_id].game.players[p].state # "BANKRUPT"
        => /\ p \in DOMAIN manager.player_games
           /\ manager.player_games[p] = game_id

\* C30: when a member with one connection has left a game that keeps other
\* members, and the LEAVE_GAME response has been sent to the leaver, the
\* server goes on to send the PLAYER_LEFT broadcast naming the leaver to
\* every connected member that remains in the game.
C30_LeaveIsBroadcast ==
    [][\A websocket \in Sockets :
          /\ SendResponse(websocket)
          /\ tasks[websocket].result.response.type = "LEAVE_GAME"
          /\ ~SendFails(websocket)
          /\ \A other \in Sockets \ {websocket} :
                connections[other].player_id # tasks[websocket].player_id
          /\ player_to_socket[tasks[websocket].player_id] = websocket
          /\ DOMAIN tasks[websocket].after.players # {}
          /\ ConnectedSockets(C, tasks[websocket].player_id) # {}
          => /\ tasks'[websocket].pc = "send_broadcast"
             /\ tasks'[websocket].message =
                   Msg("PLAYER_LEFT", tasks[websocket].player_id)
             /\ { tasks'[websocket].recipients[i] :
                    i \in DOMAIN tasks'[websocket].recipients }
                   = ConnectedSockets(C, tasks[websocket].player_id)]_vars

\* C27: the GAME_STATE the server sends to a member other than the acting
\* player as a consequence of a request shows the game as the handler of
\* that request left it.
C27_StateIsPostAction ==
    \A websocket \in Sockets :
        LET t == tasks[websocket] IN
        /\ t.pc = "send_state"
        /\ connections[t.recipients[1]].player_id # t.player_id
        => t.message = GameStateMessage(
                           t.after, connections[t.recipients[1]].player_id)

\* C29: when the send of a response fails after the handler has changed the
\* game, the game stays as the handler left it and the server still goes on
\* to send the request's broadcasts to the other connected members.
C29_BroadcastDespiteFailedResponse ==
    [][\A websocket \in Sockets :
          /\ SendResponse(websocket)
          /\ SendFails(websocket)
          /\ tasks[websocket].result.broadcasts # << >>
          /\ ConnectedSockets(C, tasks[websocket].player_id) # {}
          => /\ G' = G
             /\ tasks'[websocket].pc = "send_broadcast"
             /\ tasks'[websocket].message =
                   tasks[websocket].result.broadcasts[1]]_vars

\* C28: (1) whenever a typed broadcast or a state broadcast of a request is
\* being sent, the response was sent to the acting player, and it was sent
\* before every typed broadcast and every GAME_STATE sent to others;
\* (2) after the response of a request with typed broadcasts was sent, the
\* first of them is sent to every connected member of the acting player's
\* game except the acting player; (3) the request_id is on the response
\* and on no typed broadcast and no GAME_STATE sent to the members.
C28_ResponseThenBroadcasts ==
    /\ [](\A websocket \in Sockets :
            LET t == tasks[websocket]
                IsResponse(i) == /\ t.sent[i].to = websocket
                                 /\ t.sent[i].message = t.result.response
                IsBroadcast(i) ==
                    /\ t.sent[i].to # websocket
                    /\ \/ t.sent[i].message.type = "GAME_STATE"
                       \/ \E k \in DOMAIN t.result.broadcasts :
                             t.sent[i].message = t.result.broadcasts[k]
            IN
            /\ t.pc \in {"send_broadcast", "send_state"}
                  => /\ \E i \in DOMAIN t.sent : IsResponse(i)
                     /\ \A i \in DOMAIN t.sent :
                           IsBroadcast(i)
                              => \E j \in 1..(i - 1) : IsResponse(j)
                     /\ t.message.request_id = NoId
            /\ t.pc \in {"send_response", "send_broadcast", "send_state"}
                  => /\ t.result.response.request_id = t.result.request_id
                     /\ \A k \in DOMAIN t.result.broadcasts :
                           t.result.broadcasts[k].request_id = NoId)
    /\ [][\A websocket \in Sockets :
            /\ SendResponse(websocket)
            /\ ~SendFails(websocket)
            /\ \A other \in Sockets \ {websocket} :
                  connections[other].player_id # tasks[websocket].player_id
            /\ player_to_socket[tasks[websocket].player_id] = websocket
            /\ DOMAIN tasks[websocket].after.players # {}
            /\ tasks[websocket].result.broadcasts # << >>
            /\ ConnectedSockets(C, tasks[websocket].player_id) # {}
            => /\ tasks'[websocket].pc = "send_broadcast"
               /\ tasks'[websocket].message =
                     tasks[websocket].result.broadcasts[1]
               /\ { tasks'[websocket].recipients[i] :
                      i \in DOMAIN tasks'[websocket].recipients }
                     = ConnectedSockets(C, tasks[websocket].player_id)]_vars

(***************************************************************************)
(* The cards of the two decks.                                             *)
(***************************************************************************)
\* The Get Out of Jail Free cards the players of the game hold.
HeldJailCards ==
    SumOver(DOMAIN players, [p \in DOMAIN players |-> players[p].jail_cards])

\* C31: each deck keeps its cards.  A deck's draw pile and discard pile
\* together hold its 16 cards or, while its Get Out of Jail Free card is
\* held by a player, its other 15; the cards of the two decks and the jail
\* cards the players hold are 32 together.
C31_DecksKeepTheirCards ==
    /\ Len(chance) + Len(chance_discard) \in {15, 16}
    /\ Len(community_chest) + Len(community_chest_discard) \in {15, 16}
    /\ Len(chance) + Len(chance_discard)
          + Len(community_chest) + Len(community_chest_discard)
          + HeldJailCards = 32

(***************************************************************************)
(* Saving.                                                                 *)
(***************************************************************************)
\* A request after which the server calls auto_save_if_needed.
SavingRequest ==
    \E player_id \in PlayerIds :
        \/ EndTurn(player_id)
        \/ \E creditor_id \in PlayerIds \cup {None, UnknownId} :
              DeclareBankruptcy(player_id, creditor_id)

C33_BuildingsConserved ==
    /\ HousesOnBoard + houses_available = TOTAL_HOUSES
    /\ HotelsOnBoard + hotels_available = TOTAL_HOTELS

\* A building has been sold and the owner of the buildings has then gone
\* bankrupt to the bank: the bank holds every building again.
C33_SoldAndReturned ==
    /\ events["building_sold"] > 0
    /\ events["bankruptcy"] > 0
    /\ HousesOnBoard = 0
    /\ houses_available = TOTAL_HOUSES
    /\ hotels_available = TOTAL_HOTELS

(***************************************************************************)
(* The two records of ownership.                                           *)
(***************************************************************************)
\* C34: the two records of ownership agree: a purchasable position is in a
\* player's properties exactly when the property there has that player as
\* owner_id, and no position is in the properties of two players.
C34_OwnershipRecordsAgree ==
    /\ \A p \in DOMAIN players, pos \in PropertyPositions :
          pos \in players[p].properties <=> properties[pos].owner_id = p
    /\ \A p \in DOMAIN players, q \in DOMAIN players :
          p # q => players[p].properties \cap players[q].properties = {}

(***************************************************************************)
(* Bankruptcy of a player who is already bankrupt.                         *)
(***************************************************************************)
\* C35: bankruptcy happens once: a declare_bankruptcy by a player whose
\* state is already BANKRUPT, with or without a creditor, changes no
\* player's money, jail cards or properties and no property's owner.
C35_BankruptcyHappensOnce ==
    [][\A player_id \in PlayerIds, creditor_id \in PlayerIds \cup {None, UnknownId} :
          /\ BankruptcyRequest(MaxRepeats, player_id, creditor_id)
          /\ players[player_id].state = "BANKRUPT"
          => /\ DOMAIN players' = DOMAIN players
             /\ \A q \in DOMAIN players :
                   /\ players'[q].money = players[q].money
                   /\ players'[q].jail_cards = players[q].jail_cards
                   /\ players'[q].properties = players[q].properties
             /\ \A pos \in PropertyPositions :
                   properties'[pos].owner_id = properties[pos].owner_id]_vars

(***************************************************************************)
(* Rolling in jail.                                                        *)
(***************************************************************************)
\* C36: a player in jail makes at most one roll attempt per turn: no
\* roll_dice succeeds for a player who is in jail and has already rolled in
\* this turn, whether the earlier roll was a failed jail roll or the roll
\* that sent the player to jail.
C36_OneJailRollPerTurn ==
    [][\A player_id \in PlayerIds :
          RollDice(player_id)
          => ~ (/\ players[player_id].state = "IN_JAIL"
                /\ players[player_id].has_rolled)]_vars

(***************************************************************************)
(* What a restored game allows.                                            *)
(***************************************************************************)
\* C37: saving and loading does not change what the game allows: in every
\* reachable state the restored game has each player's has_rolled and
\* consecutive_doubles, and roll_dice, buy_property, decline_property,
\* pay_bail, use_jail_card and end_turn by any player succeed on the
\* restored game exactly when they succeed on the game itself.
C37_SameCallsAfterLoad ==
    \A decks \in ShuffledDecks :
        LET r == from_dict(to_dict(G), decks).game IN
        /\ \A p \in DOMAIN players :
              /\ r.players[p].has_rolled = players[p].has_rolled
              /\ r.players[p].consecutive_doubles
                    = players[p].consecutive_doubles
        /\ \A pid \in PlayerIds \cup {UnknownId} :
              /\ call_roll_dice(r, pid, 1, 2).success
                    = call_roll_dice(G, pid, 1, 2).success
              /\ call_buy_property(r, pid).success
                    = call_buy_property(G, pid).success
              /\ call_decline_property(r, pid).success
                    = call_decline_property(G, pid).success
              /\ call_pay_bail(r, pid).success = call_pay_bail(G, pid).success
              /\ call_use_jail_card(r, pid).success
                    = call_use_jail_card(G, pid).success
              /\ call_end_turn(r, pid).success = call_end_turn(G, pid).success

(***************************************************************************)
(* The host of a game.                                                     *)
(***************************************************************************)
\* C38: every in-memory game that still has members has a host who is one
\* of them: host_player_id is a player mapped to the game in _player_games.
C38_HostIsMember ==
    game_exists /\ player_games # {} => host_player_id \in player_games

(***************************************************************************)
(* The two records of who is host.                                         *)
(***************************************************************************)
\* C39: the two records of who is host agree: the connection record of a
\* member of the game, connected or parked, has is_host set exactly when
\* the member is ManagedGame.host_player_id.
C39_HostRecordsAgree ==
    game_exists =>
        \A p \in game_players :
            MemberRecord(C, p) # NoConnection
            => (MemberRecord(C, p).is_host <=> p = host_player_id)

(***************************************************************************)
(* The requests of a started game held by the GameManager, each followed   *)
(* by what MonopolyServer._handle_message does after it, with every send   *)
(* succeeding: auto_save_if_needed when the result has should_save.        *)
(***************************************************************************)
\* GameManager.auto_save_if_needed
manager_auto_save_if_needed(m, game_id) ==
    IF /\ game_id \in DOMAIN m.games
       /\ m.games[game_id].game.turn_number > m.games[game_id].last_saved_turn
    THEN manager_save_game(m, game_id).m
    ELSE m

\* GameManager.get_game_for_player: the id of the player's game, if any.
GamesOf(m, player_id) ==
    IF /\ player_id \in DOMAIN m.player_games
       /\ m.player_games[player_id] \in DOMAIN m.games
    THEN { m.player_games[player_id] } ELSE {}

\* ROLL_DICE on the player's game; nothing is saved.
ManagedRollDice(player_id) ==
    \E game_id \in GamesOf(manager, player_id) :
        LET g == manager.games[game_id].game IN
        /\ player_id \in DOMAIN g.players
        /\ validate_roll_dice(g, player_id)
        /\ g.events["dice_rolled"] < MaxRolls
        /\ \E die1, die2 \in 1..MaxDie,
              rc \in ReshuffleChoices(g.chance, g.chance_discard),
              rcc \in ReshuffleChoices(g.community_chest,
                                       g.community_chest_discard) :
              manager' =
                  [manager EXCEPT !.games[game_id].game =
                      roll_dice([g EXCEPT !.reshuffle_chance = rc,
                                          !.reshuffle_community_chest = rcc],
                                player_id, die1, die2)]
        /\ UNCHANGED << gameVars, sessionVars, netVars >>

\* DECLINE_PROPERTY on the player's game; nothing is saved.
ManagedDeclineProperty(player_id) ==
    \E game_id \in GamesOf(manager, player_id) :
        LET r == call_decline_property(manager.games[game_id].game, player_id)
        IN  /\ r.success
            /\ manager' = [manager EXCEPT !.games[game_id].game = r.game]
            /\ UNCHANGED << gameVars, sessionVars, netVars >>

\* END_TURN on the player's game, then the auto-save.
ManagedEndTurn(player_id) ==
    \E game_id \in GamesOf(manager, player_id) :
        LET r == call_end_turn(manager.games[game_id].game, player_id)
        IN  /\ r.success
            /\ manager' = manager_auto_save_if_needed(
                              [manager EXCEPT !.games[game_id].game = r.game],
                              game_id)
            /\ UNCHANGED << gameVars, sessionVars, netVars >>

\* PLAYER_BANKRUPT on the player's game, then the auto-save.
ManagedDeclareBankruptcy(player_id, creditor_id) ==
    \E game_id \in GamesOf(manager, player_id) :
        LET g == manager.games[game_id].game IN
        /\ player_id \in DOMAIN g.players
        /\ g.events["bankruptcy"] < MaxBankruptcies
        /\ manager' = manager_auto_save_if_needed(
                          [manager EXCEPT !.games[game_id].game =
                              declare_bankruptcy(g, player_id, creditor_id)],
                          game_id)
        /\ UNCHANGED << gameVars, sessionVars, netVars >>

NextSaved ==
    \E player_id \in PlayerIds :
        \/ ManagedRollDice(player_id)
        \/ ManagedDeclineProperty(player_id)
        \/ ManagedEndTurn(player_id)
        \/ \E creditor_id \in PlayerIds \cup {None, UnknownId} :
              ManagedDeclareBankruptcy(player_id, creditor_id)

\* The manager after player 1 has created a game, player 2 has joined it
\* and player 1 has started it: start_game has saved it.
StartedManagers ==
    { manager_start_game(
          manager_join_game(
              manager_create_game(EmptyManager, GameIdsDrawn[1], 1, TRUE,
                                  decks).m,
              GameIdsDrawn[1], 2, FALSE).m,
          GameIdsDrawn[1], 1, order).m :
        decks \in ShuffledDecks, order \in Shuffles(<< 1, 2 >>) }

InitSaved ==
    /\ \E decks \in ShuffledDecks : InitGame(NewGame(decks))
    /\ game_exists = FALSE
    /\ host_player_id = None
    /\ player_games = {}
    /\ last_saved_turn = 0
    /\ NoNetwork
    /\ manager \in StartedManagers

SpecSaved == InitSaved /\ [][NextSaved]_vars

\* The stored snapshot of game_id is the game as the manager m holds it.
Saved(m, game_id) ==
    /\ game_id \in DOMAIN m.snapshots
    /\ m.snapshots[game_id].state
          = [to_dict(m.games[game_id].game) EXCEPT !.id = game_id]

\* An END_TURN or PLAYER_BANKRUPT has been handled.
ManagedSavingRequest ==
    \E player_id \in PlayerIds :
        \/ ManagedEndTurn(player_id)
        \/ \E creditor_id \in PlayerIds \cup {None, UnknownId} :
              ManagedDeclareBankruptcy(player_id, creditor_id)

\* C40: save-worthy actions are persisted: when the server has finished
\* handling an END_TURN or a PLAYER_BANKRUPT the latest snapshot of the game
\* is the game as it is in memory, and a game that is over has a snapshot
\* with phase GAME_OVER and its winner_id.
C40_SaveWorthyActionsPersisted ==
    /\ [][ManagedSavingRequest
             => \A game_id \in DOMAIN manager'.games :
                   Saved(manager', game_id)]_vars
    /\ [](\A game_id \in DOMAIN manager.games :
             manager.games[game_id].game.phase = "GAME_OVER"
             => /\ game_id \in DOMAIN manager.snapshots
                /\ manager.snapshots[game_id].state.phase = "GAME_OVER"
                /\ manager.snapshots[game_id].state.winner_id
                      = manager.games[game_id].game.winner_id)

====
